---- MODULE Spec2Model ----
(***************************************************************************)
(* A model of p-art's provider resolution and resilience engine            *)
(* (src/p_art.py): RateLimiter, the provider cooldown registry, the        *)
(* retrying fetcher _safe_get, the response cache and the provider         *)
(* adapters.  Time is counted in milliseconds.                             *)
(***************************************************************************)
EXTENDS Integers, Sequences, FiniteSets, TLC

(***************************************************************************)
(* Bounds of the model.                                                    *)
(***************************************************************************)
\* number of clock advances the environment may make in one behaviour
MaxTicks == 3
\* number of concurrent threads calling RateLimiter.wait()
NumThreads == 2
\* total number of wait() calls in one behaviour of SpecRL
MaxWaits == 3
\* total number of cooldown registry calls in one behaviour of SpecCooldown
MaxCDCalls == 3
\* total number of get_art calls in one behaviour of SpecFetch
MaxCalls == 2
\* length of the longest list given to _pick_best_image in SpecPick
MaxImages == 3
\* number of run requests (web /run posts and scheduler firings) in one
\* behaviour of SpecRun
MaxRuns == 2
\* number of items of the library a run processes
MaxItems == 2
\* number of libraries of a batch run
MaxLibs == 2
\* number of Cache.set calls in one behaviour of SpecPersist
MaxSets == 2
\* total number of QuotaTracker calls in one behaviour of SpecQuota
MaxQuotaCalls == 3
\* number of events enqueued in one behaviour of SpecStream
MaxEvents == 3

(***************************************************************************)
(* Program constants.                                                      *)
(***************************************************************************)
\* time.time() and time.sleep() count seconds; the model counts milliseconds
MsPerSec == 1000

None == "None"

Max(a, b) == IF a >= b THEN a ELSE b
Min(a, b) == IF a <= b THEN a ELSE b

\* PArt.__init__: the hosts of self.limiters
Hosts ==
    {"api.themoviedb.org", "webservice.fanart.tv", "www.omdbapi.com",
     "api.thetvdb.com", "api4.thetvdb.com"}

\* PArt.__init__: rate_per_sec of each host's RateLimiter
RatePerSec(h) ==
    CASE h = "api.themoviedb.org" -> 2
      [] h = "webservice.fanart.tv" -> 1
      [] h = "www.omdbapi.com" -> 3
      [] h = "api.thetvdb.com" -> 1
      [] h = "api4.thetvdb.com" -> 1

\* RateLimiter.__init__: self.interval = 1.0 / max(rate_per_sec, 0.001)
\* (in milliseconds, rounded down; every configured rate is at least 1)
Interval(h) == MsPerSec \div Max(RatePerSec(h), 1)

VARIABLES
    now,        \* time.time(), in milliseconds
    ticks,      \* how many times the clock was advanced
    limNext,    \* limNext[h]: RateLimiter._next of host h
    limLock,    \* limLock[h]: the thread inside `with self._lock` of host h, or 0
    wpc,        \* wpc[t]: where thread t is inside RateLimiter.wait()
    whost,      \* whost[t]: the host whose limiter thread t called
    wnow,       \* wnow[t]: the local `now` of thread t's wait()
    wwake,      \* wwake[t]: the time at which thread t's time.sleep() is over
    grants,     \* grants[h]: history of the wait() calls granted on host h
    waits,      \* number of wait() calls started
    cooldowns,  \* PArt._provider_cooldowns: provider -> (until, reason) or None
    cdLock,     \* the thread inside `with self._cooldown_lock`, or 0
    cpc,        \* cpc[t]: where thread t is inside a cooldown registry call
    cprov,      \* cprov[t]: the provider argument of thread t's call
    cuntil,     \* cuntil[t]: the local cooldown_until of thread t's set call
    creason,    \* creason[t]: the reason argument of thread t's set call
    cdCalls,    \* number of registry calls started by the threads
    setLog,     \* history: the last completed _set_provider_cooldown call
    lastCheck,  \* history: the last completed _provider_on_cooldown call
    cache,      \* Cache._cache: (namespace, key) -> stored ArtResult
    apiKey,     \* apiKey[p]: whether provider p's adapter has an API key
    notified,   \* notified[p]: Provider._cooldown_notified of p's adapter
    notices,    \* history: notices[p]: "on cooldown" notices logged for p since
                \* p was last seen off cooldown
    apc,        \* where the worker is inside get_art
    aprov,      \* the provider whose get_art runs
    aitem,      \* the item argument of get_art
    aphase,     \* TVDb: 1 during the poster query, 2 during the fan-art query
    aposter,    \* TVDb: the poster picked from the first query
    ares,       \* the ArtResult the last get_art call returned
    aheld,      \* history: the cache entry under the call's (namespace, key)
    awrote,     \* history: the call has written to the cache
    aok,        \* history: number of _safe_get calls of the call that returned a response
    afailed,    \* history: a _safe_get call of the call returned None
    aprev,      \* history: the get_art call before the current one
    acool,      \* history: whether the call found the provider on cooldown
    asent,      \* history: HTTP requests sent during the get_art call
    callsLeft,  \* number of get_art calls the worker has still to make
    sgpc,       \* where the worker is inside _safe_get
    sghost,     \* host of the URL given to _safe_get
    attempt,    \* the loop variable of _safe_get
    sgRet,      \* what _safe_get returned
    sgLast,     \* history: the last attempt that failed and was retried
    sgSent,     \* history: HTTP requests sent during the _safe_get call
    sgWaits,    \* history: RateLimiter.wait() calls of the _safe_get call
    last429,    \* history: last429[p]: when p last answered 429 without
                \* Retry-After, or -1
    ppc,        \* where a _pick_best_image call is
    pimages,    \* its argument images
    pmin,       \* its argument min_width
    pidx,       \* the index of the next image of the loop
    pbest,      \* its local best
    pbestw,     \* its local best_w
    prpc,               \* where a _process_item call is
    overwrite,          \* self.overwrite
    include_backgrounds,\* self.include_backgrounds
    final_approval,     \* self.final_approval
    fa_assigned,        \* self.final_approval has been assigned (run_web does it)
    dry_run,            \* self.dry_run
    provider_priority,  \* self.provider_priority
    providers,          \* the keys of self.providers
    has_poster,         \* bool(item.thumb)
    has_background,     \* bool(item.art)
    result,             \* the accumulated ArtResult
    pridx,              \* the position of the loop in provider_priority
    called,             \* history: the get_art calls made and what they returned
    uploads,            \* history: the uploadPoster / uploadArt calls made
    proposed_changes,   \* self.proposed_changes
    change_log,         \* self._change_log
    is_running,         \* self.is_running
    rpc,                \* rpc[r]: where the r-th run request is
    rorigin,            \* history: who made the r-th request
    rbusy,              \* history: a run was in progress when run_web was entered
    ritems,             \* history: items the r-th run has processed
    progress_total,     \* PArt.progress_total
    progress_done,      \* PArt.progress_done
    rtotal,             \* rtotal[r]: total_items of run r, -1 before the enumeration
    rexit,              \* rexit[r]: how run r left the try block, or None
    rstat,              \* history: the last status event run r emitted
    remitted,           \* history: status and progress events run r emitted
    rfinal,             \* history: the progress when run r's loop was over
    lastprog,           \* history: the last progress event
    bmode,              \* the batch entry point: "web" (run_web) or "cli" (run)
    bpc,                \* where the batch is
    bfail,              \* bfail[l]: library.all() of library l raises
    bsize,              \* bsize[l]: number of items of library l
    braises,            \* the (library, item) pairs whose _process_item raises
    bbatches,           \* run_web: library_batches, the libraries enumerated
    blib,               \* position of the library loop
    bitem,              \* position of the item loop
    bprocessed,         \* history: the (library, item) pairs given to _process_item
    bmem,               \* entries the run has put into Cache._cache
    bdisk,              \* entries of the run that are in the cache file
    bsaves,             \* history: number of Cache.save calls of the run
    fmem,               \* Cache._cache: the number of entries set so far
    ffile,              \* the cache file: a whole snapshot, or a partial text
    flock,              \* the thread inside `with self._lock` of the cache, or 0
    fpc,                \* fpc[t]: where thread t is inside Cache.save
    fsnap,              \* fsnap[t]: the text json.dumps gave thread t
    fpoints,            \* history: the snapshots taken by the save calls
    fdone,              \* history: the snapshot of the last save that ended well
    falive,             \* the process runs; FALSE after a crash
    floaded,            \* what Cache._load returned after the restart, or -1
    quotas,             \* QuotaTracker._quotas: provider -> day -> count
    qday,               \* the day time.strftime("%Y-%m-%d") gives
    qlock,              \* the thread inside `with self._lock` of the tracker, or 0
    qpc,                \* qpc[t]: where thread t is inside a QuotaTracker call
    qprov,              \* qprov[t]: the provider argument of thread t's call
    qcount,             \* qcount[t]: the count argument of thread t's increment
    qkey,               \* qkey[t]: the local date_key of thread t's call
    qtmp,               \* qtmp[t]: the value read by thread t's `+=`
    qsum,               \* history: provider -> day -> sum of the finished increments
    qobs,               \* history: what the last finished query returned
    qcalls,             \* number of QuotaTracker calls started
    qzone,              \* the time zone of the process
    qutc,               \* the UTC calendar day
    qmade,              \* history: the local and UTC day thread t's call began
    qlsum,              \* history: finished increments by local day of the call
    qusum,              \* history: finished increments by UTC day of the call
    event_queue,        \* PArt._event_queue: the events put and not yet taken
    event_buffer,       \* PArt._event_buffer: the most recent events
    enqueued,           \* number of _enqueue_event calls begun; events are numbered
    epending,           \* the event appended to the buffer and not yet put, or 0
    spc,                \* spc[c]: where the generator of /stream client c is
    got,                \* history: got[c]: the events yielded to client c
    during              \* history: events put while every client was connected

clockVars == <<now, ticks>>
limVars == <<limNext, limLock>>
waitVars == <<wpc, whost, wnow, wwake, grants, waits>>
regVars == <<cooldowns, cdLock, setLog, lastCheck>>
cdThreadVars == <<cpc, cprov, cuntil, creason, cdCalls>>
adapterVars == <<cache, apiKey, notified, notices, apc, aprov, aitem, aphase, aposter,
                 ares, aheld, awrote, aok, afailed, aprev, acool, asent,
                 callsLeft>>
sgVars == <<sgpc, sghost, attempt, sgRet, sgLast, sgSent, sgWaits, last429>>
pickVars == <<ppc, pimages, pmin, pidx, pbest, pbestw>>
optionVars == <<overwrite, include_backgrounds, final_approval, fa_assigned,
               dry_run,
                provider_priority, providers, has_poster, has_background>>
processVars == <<prpc, result, pridx, called, uploads, proposed_changes,
                 change_log>>
runVars == <<is_running, rpc, rorigin, rbusy, ritems, progress_total,
            progress_done, rtotal, rexit, rstat, remitted, rfinal, lastprog>>
batchVars == <<bmode, bpc, bfail, bsize, braises, bbatches, blib, bitem,
               bprocessed, bmem, bdisk, bsaves>>
\* the variables of the parts that come after run_web in this module
persistVars == <<fmem, ffile, flock, fpc, fsnap, fpoints, fdone, falive,
                 floaded>>
quotaVars == <<quotas, qday, qlock, qpc, qprov, qcount, qkey, qtmp, qsum, qobs,
               qcalls>>
dayVars == <<qzone, qutc, qmade, qlsum, qusum>>
streamVars == <<event_queue, event_buffer, enqueued, epending, spc, got,
               during>>
tailVars == <<batchVars, persistVars, quotaVars, dayVars, streamVars>>
\* what the rate-limiter threads leave alone, and what the registry threads do
notRL == <<regVars, cdThreadVars, adapterVars, sgVars, pickVars, optionVars,
           processVars, runVars, tailVars>>
notCD == <<limVars, waitVars, adapterVars, sgVars, pickVars, optionVars,
           processVars, runVars, tailVars>>
\* what the artwork worker leaves alone
notFetch == <<limLock, waitVars, cdLock, cdThreadVars, setLog, pickVars,
              optionVars, processVars, runVars, tailVars>>
vars == <<now, ticks, limNext, limLock, wpc, whost, wnow, wwake, grants, waits,
          cooldowns, cdLock, cpc, cprov, cuntil, creason, cdCalls, setLog,
          lastCheck, cache, apiKey, notified, notices, apc, aprov, aitem, aphase, aposter,
          ares, aheld, awrote, aok, afailed, aprev, acool, asent, callsLeft, sgpc,
          sghost, attempt, sgRet,
          sgLast, sgSent, sgWaits, last429, ppc, pimages, pmin, pidx, pbest,
          pbestw, prpc, overwrite, include_backgrounds, final_approval,
          fa_assigned, dry_run,
          provider_priority, providers, has_poster, has_background, result,
          pridx, called, uploads, proposed_changes, change_log, is_running,
          rpc, rorigin, rbusy, ritems, progress_total, progress_done, rtotal,
          rexit, rstat, remitted, rfinal, lastprog, bmode, bpc, bfail, bsize, braises,
          bbatches, blib, bitem, bprocessed, bmem, bdisk, bsaves, fmem, ffile,
          flock, fpc, fsnap, fpoints, fdone, falive, floaded, quotas, qday,
          qlock, qpc, qprov, qcount, qkey, qtmp, qsum, qobs, qcalls,
          qzone, qutc, qmade, qlsum, qusum, event_queue, event_buffer,
          enqueued, epending, spc, got, during>>

Threads == 1..NumThreads

(***************************************************************************)
(* RateLimiter                                                             *)
(***************************************************************************)
\* the slot a call is given: max(now, self._next)
RLSlot(tnow, next) == Max(tnow, next)

\* a plausible bug: the next-eligible time restarts from the caller's clock
RLNextFromNow(tnow, next, interval) == tnow + interval

\* RateLimiter.wait: self._next = max(now, self._next) + self.interval
RLNext(tnow, next, interval) == RLSlot(tnow, next) + interval

\* RateLimiter.wait: the argument of time.sleep, self._next - now
RLSleepFor(tnow, next) == next - tnow

InitClock == now = 0 /\ ticks = 0

\* RateLimiter.__init__: self._next = 0.0, the lock free
InitLimiters ==
    /\ limNext = [h \in Hosts |-> 0]
    /\ limLock = [h \in Hosts |-> 0]

InitWaiters ==
    /\ wpc = [t \in Threads |-> "idle"]
    /\ whost = [t \in Threads |-> None]
    /\ wnow = [t \in Threads |-> 0]
    /\ wwake = [t \in Threads |-> 0]
    /\ grants = [h \in Hosts |-> <<>>]
    /\ waits = 0

\* the limiters the waiting threads share: one of 2 and one of 3 requests
\* per second (the limiters are independent objects)
RLHosts == {"api.themoviedb.org", "www.omdbapi.com"}

\* the clock steps of the rate-limiter specification
RLTickSteps == {250, 500}

\* time passes while the threads run
TickRL ==
    /\ ticks < MaxTicks
    /\ \E d \in RLTickSteps : now' = now + d
    /\ ticks' = ticks + 1
    /\ UNCHANGED <<notRL, limVars, waitVars>>

\* wait(): `with self._lock:` is entered and `now = time.time()` is read
WaitEnter(t, h) ==
    /\ wpc[t] = "idle"
    /\ waits < MaxWaits
    /\ limLock[h] = 0
    /\ limLock' = [limLock EXCEPT ![h] = t]
    /\ whost' = [whost EXCEPT ![t] = h]
    /\ wnow' = [wnow EXCEPT ![t] = now]
    /\ wpc' = [wpc EXCEPT ![t] = "locked"]
    /\ waits' = waits + 1
    /\ UNCHANGED <<notRL, clockVars, limNext, wwake, grants>>

\* wait(): `if now < self._next: time.sleep(self._next - now)`
WaitTest(t) ==
    /\ wpc[t] = "locked"
    /\ IF wnow[t] < limNext[whost[t]]
       THEN /\ wwake' = [wwake EXCEPT ![t] = now + RLSleepFor(wnow[t], limNext[whost[t]])]
            /\ wpc' = [wpc EXCEPT ![t] = "sleeping"]
       ELSE /\ wpc' = [wpc EXCEPT ![t] = "assign"]
            /\ UNCHANGED wwake
    /\ UNCHANGED <<notRL, clockVars, limVars, whost, wnow, grants, waits>>

\* time.sleep returns once at least the requested time has passed
WaitWake(t) ==
    /\ wpc[t] = "sleeping"
    /\ now >= wwake[t]
    /\ wpc' = [wpc EXCEPT ![t] = "assign"]
    /\ UNCHANGED <<notRL, clockVars, limVars, whost, wnow, wwake, grants, waits>>

\* wait(): self._next is advanced, the lock is released and wait() returns
WaitAssign(t) ==
    /\ wpc[t] = "assign"
    /\ LET h == whost[t] IN
        /\ limNext' = [limNext EXCEPT ![h] = RLNext(wnow[t], limNext[h], Interval(h))]
        /\ limLock' = [limLock EXCEPT ![h] = 0]
        /\ grants' = [grants EXCEPT ![h] =
                        Append(@, [slot |-> RLSlot(wnow[t], limNext[h]),
                                   at |-> now,
                                   slept |-> wnow[t] < limNext[h]])]
    /\ wpc' = [wpc EXCEPT ![t] = "idle"]
    /\ whost' = [whost EXCEPT ![t] = None]
    /\ wnow' = [wnow EXCEPT ![t] = 0]
    /\ wwake' = [wwake EXCEPT ![t] = 0]
    /\ UNCHANGED <<notRL, clockVars, waits>>

(***************************************************************************)
(* The provider cooldown registry                                          *)
(***************************************************************************)
\* the providers of PArt._provider_hosts
Providers == {"tmdb", "fanart", "omdb", "tvdb"}

\* PArt._provider_hosts
ProviderOfHost(h) ==
    CASE h = "api.themoviedb.org" -> "tmdb"
      [] h = "webservice.fanart.tv" -> "fanart"
      [] h = "www.omdbapi.com" -> "omdb"
      [] h = "api.thetvdb.com" -> "tvdb"
      [] h = "api4.thetvdb.com" -> "tvdb"

\* self._provider_cooldowns.get(provider) of a provider without an entry
NoInfo == [absent |-> TRUE]

\* the history variables before any call
NoCall == [prov |-> None]

\* _set_provider_cooldown: cooldown_until = time.time() + seconds
CooldownUntil(tnow, seconds) == tnow + seconds * MsPerSec

\* a plausible bug: the entry is overwritten whatever it holds
CooldownAfterSetAlways(cds, p, until, reason) ==
    [cds EXCEPT ![p] = [until |-> until, reason |-> reason]]

\* _set_provider_cooldown, under the lock: an entry that extends at least as
\* far is kept, otherwise (until, reason) is stored
CooldownAfterSet(cds, p, until, reason) ==
    IF cds[p] # NoInfo /\ cds[p].until >= until
    THEN cds
    ELSE [cds EXCEPT ![p] = [until |-> until, reason |-> reason]]

\* _provider_on_cooldown: remaining = until - time.time()
CheckRemaining(info, tnow) == info.until - tnow

\* a plausible bug: an entry is still live at the instant it expires
CheckExpiredStrict(info, tnow) == CheckRemaining(info, tnow) < 0

\* _provider_on_cooldown: `if remaining <= 0`
CheckExpired(info, tnow) == CheckRemaining(info, tnow) <= 0

NotOnCooldown == [on |-> FALSE, reason |-> None, remaining |-> 0]

\* _provider_on_cooldown: the returned (on_cooldown, reason, remaining)
CheckResult(info, tnow) ==
    IF info = NoInfo THEN NotOnCooldown
    ELSE IF CheckExpired(info, tnow) THEN NotOnCooldown
    ELSE [on |-> TRUE, reason |-> info.reason,
          remaining |-> Max(0, CheckRemaining(info, tnow))]

\* _provider_on_cooldown: the registry it leaves (an expired entry is popped)
CooldownAfterCheck(cds, p, tnow) ==
    IF cds[p] # NoInfo /\ CheckExpired(cds[p], tnow)
    THEN [cds EXCEPT ![p] = NoInfo]
    ELSE cds

\* PArt.__init__: self._provider_cooldowns = {}, the lock free
InitRegistry ==
    /\ cooldowns = [p \in Providers |-> NoInfo]
    /\ cdLock = 0
    /\ setLog = NoCall
    /\ lastCheck = NoCall

InitCDThreads ==
    /\ cpc = [t \in Threads |-> "idle"]
    /\ cprov = [t \in Threads |-> None]
    /\ cuntil = [t \in Threads |-> 0]
    /\ creason = [t \in Threads |-> None]
    /\ cdCalls = 0

\* the providers, durations (seconds), reasons and clock steps of the
\* registry specification
CDProviders == {"tmdb", "omdb"}
CDSeconds == {0, 1}
CDReasons == {"HTTP 429", "HTTP 401"}
CDTickSteps == {1000}

TickCD ==
    /\ ticks < MaxTicks
    /\ \E d \in CDTickSteps : now' = now + d
    /\ ticks' = ticks + 1
    /\ UNCHANGED <<notCD, regVars, cdThreadVars>>

\* _set_provider_cooldown: `if seconds <= 0: return`, then
\* cooldown_until = time.time() + seconds, outside the lock
SetBegin(t, p, seconds, reason) ==
    /\ cpc[t] = "idle"
    /\ cdCalls < MaxCDCalls
    /\ cdCalls' = cdCalls + 1
    /\ IF seconds <= 0
       THEN UNCHANGED <<cpc, cprov, cuntil, creason>>
       ELSE /\ cpc' = [cpc EXCEPT ![t] = "set"]
            /\ cprov' = [cprov EXCEPT ![t] = p]
            /\ cuntil' = [cuntil EXCEPT ![t] = CooldownUntil(now, seconds)]
            /\ creason' = [creason EXCEPT ![t] = reason]
    /\ UNCHANGED <<notCD, clockVars, regVars>>

\* _set_provider_cooldown: the block under self._cooldown_lock
SetCommit(t) ==
    /\ cpc[t] = "set"
    /\ cdLock = 0
    /\ cooldowns' = CooldownAfterSet(cooldowns, cprov[t], cuntil[t], creason[t])
    /\ setLog' = [prov |-> cprov[t], until |-> cuntil[t],
                  before |-> cooldowns[cprov[t]], after |-> cooldowns'[cprov[t]]]
    /\ cpc' = [cpc EXCEPT ![t] = "idle"]
    /\ cprov' = [cprov EXCEPT ![t] = None]
    /\ cuntil' = [cuntil EXCEPT ![t] = 0]
    /\ creason' = [creason EXCEPT ![t] = None]
    /\ UNCHANGED <<notCD, clockVars, cdLock, lastCheck, cdCalls>>

\* _provider_on_cooldown: the lock is taken and the entry is read; without
\* an entry the call returns (False, None, 0.0)
CheckBegin(t, p) ==
    /\ cpc[t] = "idle"
    /\ cdCalls < MaxCDCalls
    /\ cdLock = 0
    /\ cdCalls' = cdCalls + 1
    /\ IF cooldowns[p] = NoInfo
       THEN /\ lastCheck' = [prov |-> p, at |-> now, before |-> NoInfo,
                             res |-> CheckResult(NoInfo, now), after |-> NoInfo]
            /\ UNCHANGED <<cdLock, cpc, cprov>>
       ELSE /\ cdLock' = t
            /\ cpc' = [cpc EXCEPT ![t] = "check"]
            /\ cprov' = [cprov EXCEPT ![t] = p]
            /\ UNCHANGED lastCheck
    /\ UNCHANGED <<notCD, clockVars, cooldowns, setLog, cuntil, creason>>

\* _provider_on_cooldown: time.time() is read, an expired entry is popped,
\* the lock is released and the call returns
CheckDecide(t) ==
    /\ cpc[t] = "check"
    /\ cdLock = t
    /\ cooldowns' = CooldownAfterCheck(cooldowns, cprov[t], now)
    /\ lastCheck' = [prov |-> cprov[t], at |-> now, before |-> cooldowns[cprov[t]],
                     res |-> CheckResult(cooldowns[cprov[t]], now),
                     after |-> cooldowns'[cprov[t]]]
    /\ cdLock' = 0
    /\ cpc' = [cpc EXCEPT ![t] = "idle"]
    /\ cprov' = [cprov EXCEPT ![t] = None]
    /\ UNCHANGED <<notCD, clockVars, setLog, cuntil, creason, cdCalls>>

(***************************************************************************)
(* The fetcher: PArt._safe_get                                             *)
(***************************************************************************)
\* `for attempt in range(4)`
Attempts == 4

\* a plausible bug: one attempt too many
LoopContinuesOffByOne(a) == a <= Attempts

\* `for attempt in range(4)`: the body runs for attempt 0, 1, 2, 3
LoopContinues(a) == a < Attempts

\* a response without a Retry-After header (below: one with a numeric header,
\* in seconds, and one with a header that int() cannot parse)
NoHeader == [present |-> FALSE, numeric |-> FALSE, value |-> 0]

\* the lower-case words of an error text
Words(tx) ==
    CASE tx = "" -> {}
      [] tx = "Rate limit exceeded" -> {"rate", "limit", "exceeded"}
      [] tx = "Service unavailable" -> {"service", "unavailable"}
      [] OTHER -> {}

\* the body of a 200 response: whether it is JSON of the expected shape, and
\* the best poster and background among the images it lists
Bodies ==
    {[json |-> TRUE, poster |-> "P2", background |-> "B2"],
     [json |-> TRUE, poster |-> "N/A", background |-> None],
     [json |-> TRUE, poster |-> None, background |-> None],
     [json |-> FALSE, poster |-> None, background |-> None]}

NoBody == [json |-> FALSE, poster |-> None, background |-> None]

\* an answer other than 200: its status, Retry-After header and error text
ErrorResponse(st, h, tx) ==
    [exc |-> FALSE, status |-> st, ra |-> h, text |-> tx, body |-> NoBody]

RetryAfter2 == [present |-> TRUE, numeric |-> TRUE, value |-> 2]
RetryAfterSoon == [present |-> TRUE, numeric |-> FALSE, value |-> 0]

\* what session.get can do: raise requests.RequestException, answer 200,
\* or answer another status with some Retry-After header and error text
Responses ==
    {[exc |-> TRUE, status |-> 0, ra |-> NoHeader, text |-> "", body |-> NoBody]}
    \cup {[exc |-> FALSE, status |-> 200, ra |-> NoHeader, text |-> "", body |-> b] :
            b \in Bodies}
    \cup {ErrorResponse(429, NoHeader, ""),
          ErrorResponse(429, RetryAfter2, "Rate limit exceeded"),
          ErrorResponse(401, NoHeader, ""),
          ErrorResponse(403, NoHeader, "Service unavailable"),
          ErrorResponse(503, NoHeader, "Service unavailable"),
          ErrorResponse(503, RetryAfter2, ""),
          ErrorResponse(503, RetryAfterSoon, ""),
          ErrorResponse(404, NoHeader, "Rate limit exceeded"),
          ErrorResponse(204, NoHeader, ""),
          ErrorResponse(204, NoHeader, "Rate limit exceeded"),
          ErrorResponse(204, RetryAfter2, "Rate limit exceeded")}

NoResp == [exc |-> FALSE, status |-> 0, ra |-> NoHeader, text |-> "", body |-> NoBody]

\* the truth value of a requests.Response (`if r`): Response.__bool__ is
\* Response.ok, true when the status code is below 400
Truthy(r) == r.status < 400

\* `if r and r.status_code == 200: return r`
IsSuccess(r) == Truthy(r) /\ r.status = 200

\* error_detail: read from the payload or the text only under `if r:`
ErrorDetail(r) == IF Truthy(r) THEN r.text ELSE ""

\* `"limit" in lower and ("rate" in lower or "request" in lower)`
MatchesLimit(tx) ==
    "limit" \in Words(tx) /\ ("rate" \in Words(tx) \/ "request" \in Words(tx))

\* `if r and provider_name:` ... `if r.status_code == 429 or (...)`
IsRateLimited(r, prov) ==
    /\ Truthy(r) /\ prov # None
    /\ (r.status = 429 \/ MatchesLimit(ErrorDetail(r)))

\* `if r and provider_name:` ... `if r.status_code in (401, 403)`
IsUnauthorized(r, prov) ==
    /\ Truthy(r) /\ prov # None
    /\ r.status \in {401, 403}

\* retry_after_hint = int(r.headers.get("Retry-After", 30 * 60)), the default
\* kept when int() raises
RetryAfterHint(r) ==
    IF r.ra.present /\ r.ra.numeric THEN r.ra.value ELSE 30 * 60

\* the cooldown of an unauthorized provider, 12 * 3600 seconds
UnauthorizedCooldown == 12 * 3600

\* reason = error_detail or f"HTTP {r.status_code}"
HttpReason(st) ==
    CASE st = 204 -> "HTTP 204"
      [] st = 401 -> "HTTP 401"
      [] st = 403 -> "HTTP 403"
      [] st = 404 -> "HTTP 404"
      [] st = 429 -> "HTTP 429"
      [] st = 503 -> "HTTP 503"
      [] OTHER -> "HTTP"

ReasonOf(r) == IF ErrorDetail(r) # "" THEN ErrorDetail(r) ELSE HttpReason(r.status)

\* retry_after: int(Retry-After) under `if r and r.status_code in (429, 500,
\* 502, 503, 504)`, else 0
RetryAfter(r) ==
    IF Truthy(r) /\ r.status \in {429, 500, 502, 503, 504}
    THEN IF r.ra.present /\ r.ra.numeric THEN r.ra.value ELSE 0
    ELSE 0

\* 0.25 * random.random(), in thousandths: a value of [0, 250)
Jitters == {0, 249}

\* 2 ** attempt
RECURSIVE Pow2(_)
Pow2(n) == IF n = 0 THEN 1 ELSE 2 * Pow2(n - 1)

\* sleep_time = max(retry_after, 1) * (1 + 0.25 * random.random()) * (2 ** attempt)
SleepTime(ra, jitter, a) == Max(ra, 1) * (MsPerSec + jitter) * Pow2(a)

\* time.sleep(min(sleep_time, 30))
SleepFor(ra, jitter, a) == Min(SleepTime(ra, jitter, a), 30 * MsPerSec)

\* the host of each adapter's URLs
HostOf(p) ==
    CASE p = "tmdb" -> "api.themoviedb.org"
      [] p = "fanart" -> "webservice.fanart.tv"
      [] p = "omdb" -> "www.omdbapi.com"
      [] p = "tvdb" -> "api.thetvdb.com"

NoAttempt ==
    [kind |-> None, status |-> 0, ra |-> NoHeader, text |-> "", attempt |-> 0,
     jitter |-> 0, slept |-> 0]

InitSafeGet ==
    /\ sgpc = "idle"
    /\ sghost = None
    /\ attempt = 0
    /\ sgRet = NoResp
    /\ sgLast = NoAttempt
    /\ sgSent = 0
    /\ sgWaits = 0
    /\ last429 = [p \in Providers |-> -1]

\* _set_provider_cooldown as one step of a single thread
SetProviderCooldown(cds, p, seconds, reason, tnow) ==
    IF seconds <= 0 THEN cds
    ELSE CooldownAfterSet(cds, p, CooldownUntil(tnow, seconds), reason)

\* the clock steps of the fetcher specification
FetchTickSteps == {30 * 60 * MsPerSec}

\* time passes between the worker's calls (inside _safe_get it passes by
\* the sleeps)
TickFetch ==
    /\ ticks < MaxTicks
    /\ apc \in {"idle", "done", "raised"}
    /\ callsLeft > 0
    /\ \E p \in Providers : cooldowns[p] # NoInfo
    /\ \E d \in FetchTickSteps : now' = now + d
    /\ ticks' = ticks + 1
    /\ UNCHANGED <<notFetch, limNext, cooldowns, lastCheck, adapterVars, sgVars>>

\* _safe_get: `if host in self.limiters: self.limiters[host].wait()`, once,
\* before the loop (wait() sleeps until _next and advances it)
SGWait ==
    /\ sgpc = "wait"
    /\ IF sghost \in Hosts
       THEN /\ now' = IF now < limNext[sghost]
                       THEN now + RLSleepFor(now, limNext[sghost])
                       ELSE now
            /\ limNext' = [limNext EXCEPT ![sghost] =
                             RLNext(now, limNext[sghost], Interval(sghost))]
            /\ sgWaits' = sgWaits + 1
       ELSE UNCHANGED <<now, limNext, sgWaits>>
    /\ attempt' = 0
    /\ sgpc' = "send"
    /\ UNCHANGED <<notFetch, ticks, cooldowns, lastCheck, adapterVars, sghost,
                   sgRet, sgLast, sgSent, last429>>

\* _safe_get: the loop is over: `return None`
SGExhausted ==
    /\ sgpc = "send"
    /\ ~LoopContinues(attempt)
    /\ sgRet' = NoResp
    /\ sgpc' = "ret"
    /\ UNCHANGED <<notFetch, clockVars, limNext, cooldowns, lastCheck,
                   adapterVars, sghost, attempt, sgLast, sgSent, sgWaits,
                   last429>>

\* _safe_get: one iteration of the loop: session.get sends the request, the
\* server answers r (or the request raises), and the answer is handled
SGAttempt(Answers, JitterValues) ==
    /\ sgpc = "send"
    /\ LoopContinues(attempt)
    /\ sgSent' = sgSent + 1
    /\ asent' = asent + 1
    /\ \E r \in Answers :
       LET prov == ProviderOfHost(sghost) IN
        /\ r.status = 200 /\ r.body.poster = "N/A" => sghost = "www.omdbapi.com"
        /\ last429' = IF ~r.exc /\ r.status = 429 /\ ~r.ra.present
                      THEN [last429 EXCEPT ![prov] = now]
                      ELSE last429
        /\ IF r.exc
           THEN \* except requests.RequestException: logged, next iteration
                /\ sgLast' = [kind |-> "exc", status |-> 0, ra |-> NoHeader,
                              text |-> "", attempt |-> attempt, jitter |-> 0,
                              slept |-> 0]
                /\ attempt' = attempt + 1
                /\ UNCHANGED <<now, cooldowns, sgRet, sgpc>>
           ELSE IF IsSuccess(r)
           THEN /\ sgRet' = r
                /\ sgpc' = "ret"
                /\ UNCHANGED <<now, cooldowns, attempt, sgLast>>
           ELSE IF IsRateLimited(r, prov)
           THEN /\ cooldowns' = SetProviderCooldown(cooldowns, prov,
                                    RetryAfterHint(r), ReasonOf(r), now)
                /\ sgLast' = [kind |-> "resp", status |-> r.status, ra |-> r.ra,
                              text |-> r.text, attempt |-> attempt, jitter |-> 0,
                              slept |-> 0]
                /\ sgRet' = NoResp
                /\ sgpc' = "ret"
                /\ UNCHANGED <<now, attempt>>
           ELSE IF IsUnauthorized(r, prov)
           THEN /\ cooldowns' = SetProviderCooldown(cooldowns, prov,
                                    UnauthorizedCooldown, ReasonOf(r), now)
                /\ sgLast' = [kind |-> "resp", status |-> r.status, ra |-> r.ra,
                              text |-> r.text, attempt |-> attempt, jitter |-> 0,
                              slept |-> 0]
                /\ sgRet' = NoResp
                /\ sgpc' = "ret"
                /\ UNCHANGED <<now, attempt>>
           ELSE \E j \in JitterValues :
                /\ now' = now + SleepFor(RetryAfter(r), j, attempt)
                /\ sgLast' = [kind |-> "resp", status |-> r.status, ra |-> r.ra,
                              text |-> r.text, attempt |-> attempt, jitter |-> j,
                              slept |-> SleepFor(RetryAfter(r), j, attempt)]
                /\ attempt' = attempt + 1
                /\ UNCHANGED <<cooldowns, sgRet, sgpc>>
    /\ UNCHANGED <<notFetch, ticks, limNext, lastCheck, cache, apiKey, notified,
                   notices, apc, aprov, aitem, aphase, aposter, ares, aheld,
                   awrote, aok, afailed, aprev, acool, callsLeft, sghost,
                   sgWaits>>

(***************************************************************************)
(* The response cache and the provider adapters                            *)
(***************************************************************************)
\* ArtResult()
EmptyResult == [poster_url |-> None, background_url |-> None, source |-> None]

\* Cache.get of a (namespace, key) that holds nothing
NoCached == [absent |-> TRUE]

Namespaces == {"tmdb_movie", "tmdb_tv", "fanart_tv", "fanart_movie", "omdb", "tvdb"}

\* the external ids of the items of the model
ExternalIds == {"550", "81189", "tt0137523"}

CacheSlots == Namespaces \X ExternalIds

\* an identifier string of an item: its scheme and the id that follows "://"
TmdbGuid == [scheme |-> "themoviedb", id |-> "550"]
TvdbGuid == [scheme |-> "thetvdb", id |-> "81189"]
ImdbGuid == [scheme |-> "imdb", id |-> "tt0137523"]
PlexGuid == [scheme |-> "plex", id |-> "5d776b5"]

\* the items handed to the adapters: item.guid followed by item.guids
FetchItems ==
    {[type |-> "movie", guids |-> <<PlexGuid, TmdbGuid, ImdbGuid>>],
     [type |-> "show", guids |-> <<TvdbGuid, TmdbGuid, ImdbGuid>>],
     [type |-> "movie", guids |-> <<TvdbGuid>>],
     [type |-> "movie", guids |-> <<PlexGuid>>]}

NoItem == [type |-> None, guids |-> <<>>]

\* no get_art call came before
NoPrev == [prov |-> None]

NoIds == [tmdb |-> None, tvdb |-> None, imdb |-> None]

\* _extract_ids_from_guid
ExtractIds(g) ==
    [tmdb |-> IF g.scheme = "themoviedb" THEN g.id ELSE None,
     tvdb |-> IF g.scheme = "thetvdb" THEN g.id ELSE None,
     imdb |-> IF g.scheme = "imdb" THEN g.id ELSE None]

\* dict.update: the ids found later replace those found earlier
UpdateIds(ids, found) ==
    [k \in {"tmdb", "tvdb", "imdb"} |-> IF found[k] # None THEN found[k] ELSE ids[k]]

\* _resolve_external_ids
RECURSIVE ResolveGuids(_)
ResolveGuids(gs) ==
    IF gs = <<>> THEN NoIds
    ELSE UpdateIds(ResolveGuids(SubSeq(gs, 1, Len(gs) - 1)), ExtractIds(gs[Len(gs)]))

ResolveExternalIds(item) == ResolveGuids(item.guids)

\* a plausible bug: the missing API key is not tested
RefusesItemWithoutKeyTest(p, item) ==
    p = "tvdb" /\ item.type # "show"

\* get_art: the first return: no API key (TVDb: or the item is not a show)
RefusesItem(p, item) ==
    \/ ~apiKey[p]
    \/ p = "tvdb" /\ item.type # "show"

\* get_art: the cache namespace
AdapterNs(p, item) ==
    LET ids == ResolveExternalIds(item) IN
    CASE p = "tmdb" -> IF item.type = "movie" /\ ids.tmdb # None
                       THEN "tmdb_movie" ELSE "tmdb_tv"
      [] p = "fanart" -> IF ids.tvdb # None THEN "fanart_tv" ELSE "fanart_movie"
      [] p = "omdb" -> "omdb"
      [] p = "tvdb" -> "tvdb"

\* get_art: the cache key
AdapterKey(p, item) ==
    LET ids == ResolveExternalIds(item) IN
    CASE p = "tmdb" -> IF item.type \in {"movie", "show"} THEN ids.tmdb ELSE None
      [] p = "fanart" -> IF ids.tvdb # None THEN ids.tvdb ELSE ids.tmdb
      [] p = "omdb" -> ids.imdb
      [] p = "tvdb" -> ids.tvdb

\* OMDb and TVDb return ArtResult() before the cache when the id is missing
LacksRequiredId(p, item) ==
    p \in {"omdb", "tvdb"} /\ AdapterKey(p, item) = None

\* Cache.get
CacheGet(c, ns, key) == IF key = None THEN NoCached ELSE c[<<ns, key>>]

\* a plausible bug: a result without artwork is not stored
CacheSetUnlessEmpty(c, ns, key, value) ==
    IF value.poster_url = None /\ value.background_url = None THEN c
    ELSE [c EXCEPT ![<<ns, key>>] = value]

\* Cache.set
CacheSet(c, ns, key, value) == [c EXCEPT ![<<ns, key>>] = value]

\* a plausible bug: a cached "no artwork" result is taken for a miss
CacheHitNonEmpty(cached) ==
    /\ cached # NoCached
    /\ (cached.poster_url # None \/ cached.background_url # None)

\* get_art: `if cached:` (a stored ArtResult.__dict__ is a non-empty dict)
CacheHit(cached) == cached # NoCached

\* get_art: the ArtResult built from the response(s)
AdapterResult(p, poster, background) ==
    CASE p = "omdb" -> [poster_url |-> IF poster # None /\ poster # "N/A"
                                      THEN poster ELSE None,
                        background_url |-> None, source |-> "omdb"]
      [] OTHER -> [poster_url |-> poster, background_url |-> background,
                   source |-> p]

\* a plausible bug: the poster of the first sub-query survives the failure
\* of the second
FailedResultKeepsPoster(p, poster) ==
    IF poster = None THEN EmptyResult
    ELSE [poster_url |-> poster, background_url |-> None, source |-> p]

\* get_art: `if not r: return ArtResult()`, whatever was fetched before
FailedResult(p, poster) == EmptyResult

\* _get_providers at the start of a run: the adapters are created anew, each
\* with `_cooldown_notified = False`
GetProviders ==
    /\ apc \in {"idle", "done", "raised"}
    /\ callsLeft > 0
    /\ \E p \in Providers : notified[p]
    /\ notified' = [p \in Providers |-> FALSE]
    /\ UNCHANGED <<notFetch, clockVars, limNext, cooldowns, lastCheck, cache,
                   apiKey, notices, apc, aprov, aitem, aphase, aposter, ares,
                   aheld, awrote, aok, afailed, aprev, acool, asent, callsLeft,
                   sgVars>>

\* the response cache as the program can find it on disk when it starts
InitCaches ==
    {[s \in CacheSlots |-> NoCached],
     [s \in CacheSlots |->
        IF s = <<"tmdb_movie", "550">>
        THEN [poster_url |-> "U1", background_url |-> None, source |-> "tmdb"]
        ELSE NoCached]}

\* the API keys of a run: all four, or TMDb's alone
KeyConfigs ==
    {[p \in Providers |-> TRUE], [p \in Providers |-> p = "tmdb"]}

InitAdapters ==
    /\ cache \in InitCaches
    /\ apiKey \in KeyConfigs
    /\ notified = [p \in Providers |-> FALSE]
    /\ notices = [p \in Providers |-> 0]
    /\ apc = "idle"
    /\ aprov = None
    /\ aitem = NoItem
    /\ aphase = 0
    /\ aposter = None
    /\ ares = EmptyResult
    /\ aheld = NoCached
    /\ awrote = FALSE
    /\ aok = 0
    /\ afailed = FALSE
    /\ aprev = NoPrev
    /\ acool = FALSE
    /\ asent = 0

\* get_art is called; without an API key (TVDb: or for an item that is not a
\* show) it returns ArtResult()
GetArtBegin(p, item) ==
    /\ apc \in {"idle", "done", "raised"}
    /\ callsLeft > 0
    /\ callsLeft' = callsLeft - 1
    /\ aprov' = p
    /\ aitem' = item
    /\ aheld' = CacheGet(cache, AdapterNs(p, item), AdapterKey(p, item))
    /\ awrote' = FALSE
    /\ aok' = 0
    /\ afailed' = FALSE
    /\ aprev' = IF apc = "idle" THEN NoPrev
                ELSE [prov |-> aprov, ns |-> AdapterNs(aprov, aitem),
                      key |-> AdapterKey(aprov, aitem), returned |-> apc = "done",
                      wrote |-> awrote, failed |-> afailed, res |-> ares]
    /\ acool' = FALSE
    /\ asent' = 0
    /\ aphase' = 0
    /\ aposter' = None
    /\ IF RefusesItem(p, item)
       THEN ares' = EmptyResult /\ apc' = "done"
       ELSE ares' = EmptyResult /\ apc' = "cooldown"
    /\ UNCHANGED <<notFetch, clockVars, limNext, cooldowns, lastCheck, cache,
                   apiKey, notified, notices, sgVars>>

\* Provider._check_cooldown: on cooldown get_art returns ArtResult()
GetArtCooldown ==
    /\ apc = "cooldown"
    /\ LET res == CheckResult(cooldowns[aprov], now) IN
        /\ cooldowns' = CooldownAfterCheck(cooldowns, aprov, now)
        /\ lastCheck' = [prov |-> aprov, at |-> now, before |-> cooldowns[aprov],
                         res |-> res, after |-> cooldowns'[aprov]]
        /\ notified' = [notified EXCEPT ![aprov] = res.on]
        /\ notices' = [notices EXCEPT ![aprov] =
                          IF ~res.on THEN 0
                          ELSE IF notified[aprov] THEN @ ELSE @ + 1]
        /\ acool' = res.on
        /\ apc' = IF res.on THEN "done" ELSE "lookup"
    /\ UNCHANGED <<notFetch, clockVars, limNext, cache, apiKey, aprov, aitem,
                   aphase, aposter, ares, aheld, awrote, aok, afailed, aprev,
                   asent, callsLeft, sgVars>>

\* get_art: the ids are resolved and the cache is read; on a hit the cached
\* result is returned, otherwise the first request is made
GetArtLookup ==
    /\ apc = "lookup"
    /\ LET ns == AdapterNs(aprov, aitem)
           key == AdapterKey(aprov, aitem)
           cached == CacheGet(cache, ns, key)
       IN
        IF LacksRequiredId(aprov, aitem)
        THEN /\ ares' = EmptyResult /\ apc' = "done"
             /\ UNCHANGED <<aphase, sgpc, sghost>>
        ELSE IF CacheHit(cached)
        THEN /\ ares' = cached /\ apc' = "done"
             /\ UNCHANGED <<aphase, sgpc, sghost>>
        ELSE IF key = None
        THEN /\ ares' = EmptyResult /\ apc' = "done"
             /\ UNCHANGED <<aphase, sgpc, sghost>>
        ELSE /\ apc' = "fetch"
             /\ aphase' = 1
             /\ sgpc' = "wait"
             /\ sghost' = HostOf(aprov)
             /\ UNCHANGED ares
    /\ UNCHANGED <<notFetch, clockVars, limNext, cooldowns, lastCheck, cache,
                   apiKey, notified, notices, aprov, aitem, aposter, aheld, awrote, aok,
                   afailed, aprev, acool, asent,
                   callsLeft, attempt, sgRet, sgLast, sgSent, sgWaits, last429>>

\* get_art after _safe_get returned: `if not r: return ArtResult()`, r.json(),
\* the pick of the images, self.part.cache.set and the return; TVDb makes its
\* second request after the first
GetArtResume ==
    /\ apc = "fetch"
    /\ sgpc = "ret"
    /\ sgpc' = IF sgRet # NoResp /\ sgRet.body.json /\ aprov = "tvdb" /\ aphase = 1
               THEN "wait" ELSE "idle"
    /\ IF sgRet = NoResp
       THEN /\ ares' = FailedResult(aprov, aposter) /\ apc' = "done"
            /\ UNCHANGED <<cache, aphase, aposter>>
       ELSE IF ~sgRet.body.json
       THEN \* r.json() or the field access raises out of get_art
            /\ apc' = "raised"
            /\ UNCHANGED <<cache, ares, aphase, aposter>>
       ELSE IF aprov = "tvdb" /\ aphase = 1
       THEN /\ aposter' = sgRet.body.poster
            /\ aphase' = 2
            /\ UNCHANGED <<cache, ares, apc>>
       ELSE LET res == AdapterResult(aprov,
                          IF aprov = "tvdb" THEN aposter ELSE sgRet.body.poster,
                          sgRet.body.background)
            IN /\ cache' = CacheSet(cache, AdapterNs(aprov, aitem),
                                    AdapterKey(aprov, aitem), res)
               /\ ares' = res
               /\ apc' = "done"
               /\ UNCHANGED <<aphase, aposter>>
    /\ sghost' = IF sgpc' = "wait" THEN sghost ELSE None
    /\ attempt' = 0 /\ sgRet' = NoResp /\ sgLast' = NoAttempt
    /\ sgSent' = 0 /\ sgWaits' = 0
    /\ UNCHANGED <<notFetch, clockVars, limNext, cooldowns, lastCheck, apiKey,
                   notified, notices, aprov, aitem, aheld, aprev, acool, asent, callsLeft,
                   last429>>
    /\ awrote' = (\/ awrote
                   \/ (/\ sgRet # NoResp /\ sgRet.body.json
                       /\ ~(aprov = "tvdb" /\ aphase = 1)))
    /\ aok' = IF sgRet # NoResp THEN aok + 1 ELSE aok
    /\ afailed' = (afailed \/ sgRet = NoResp)

(***************************************************************************)
(* _pick_best_image                                                        *)
(***************************************************************************)
\* the "width" of a candidate as the adapters hand it over: a number, a
\* string of digits, or a string int() cannot parse
RawWidths ==
    {[kind |-> "int", value |-> 0], [kind |-> "int", value |-> 500],
     [kind |-> "int", value |-> 700], [kind |-> "int", value |-> 800],
     [kind |-> "str", value |-> 700], [kind |-> "bad", value |-> 0]}

\* a candidate: its width and whether it has a URL
Candidates == [width : RawWidths, hasUrl : BOOLEAN]

ImageLists == UNION {[1..n -> Candidates] : n \in 0..MaxImages}

\* the min_width values: the adapters pass 600 for posters; 0 and 800 are
\* the edges of the candidates' widths
MinWidths == {0, 600, 800}

\* the URL of the i-th candidate of a list
UrlNames == <<"a", "b", "c", "d", "e">>
UrlOf(images, i) == IF images[i].hasUrl THEN UrlNames[i] ELSE None

\* w = img.get("width") or ... or 0; a string goes through int(), 0 on
\* ValueError
ParseWidth(w) == IF w.kind = "bad" THEN 0 ELSE w.value

\* a plausible bug: a candidate as wide as the best so far replaces it
PickTakesTies(w, minw, bestw) == w >= minw /\ w >= bestw

\* `if w >= min_width and w > best_w`
PickTakes(w, minw, bestw) == w >= minw /\ w > bestw

InitPick ==
    /\ ppc = "idle"
    /\ pimages = <<>>
    /\ pmin = 0
    /\ pidx = 0
    /\ pbest = None
    /\ pbestw = 0

\* _pick_best_image(images, min_width) is called: best = None, best_w = 0
PickBegin ==
    /\ ppc = "called"
    /\ ppc' = "loop"
    /\ pidx' = 1
    /\ pbest' = None
    /\ pbestw' = 0
    /\ UNCHANGED <<pimages, pmin>>
    /\ UNCHANGED <<tailVars, clockVars, limVars, waitVars, regVars, cdThreadVars,
                   adapterVars, sgVars, optionVars, processVars, runVars>>

\* one iteration of `for img in images or []`
PickStep ==
    /\ ppc = "loop"
    /\ pidx <= Len(pimages)
    /\ LET w == ParseWidth(pimages[pidx].width)
           url == UrlOf(pimages, pidx)
       IN IF url # None /\ PickTakes(w, pmin, pbestw)
          THEN pbest' = url /\ pbestw' = w
          ELSE UNCHANGED <<pbest, pbestw>>
    /\ pidx' = pidx + 1
    /\ UNCHANGED <<ppc, pimages, pmin>>
    /\ UNCHANGED <<tailVars, clockVars, limVars, waitVars, regVars, cdThreadVars,
                   adapterVars, sgVars, optionVars, processVars, runVars>>

\* `return best`
PickReturn ==
    /\ ppc = "loop"
    /\ pidx > Len(pimages)
    /\ ppc' = "done"
    /\ UNCHANGED <<pimages, pmin, pidx, pbest, pbestw>>
    /\ UNCHANGED <<tailVars, clockVars, limVars, waitVars, regVars, cdThreadVars,
                   adapterVars, sgVars, optionVars, processVars, runVars>>

(***************************************************************************)
(* _process_item                                                           *)
(***************************************************************************)
\* the image URLs of each provider
PosterUrl ==
    [p \in Providers |->
        CASE p = "tmdb" -> "P1" [] p = "fanart" -> "P2"
          [] p = "omdb" -> "P3" [] p = "tvdb" -> "P4"]
BackgroundUrl ==
    [p \in Providers |->
        CASE p = "tmdb" -> "B1" [] p = "fanart" -> "B2"
          [] p = "omdb" -> "B3" [] p = "tvdb" -> "B4"]

\* what provider.get_art can return: ArtResult(), or the result built from
\* the provider's answer (with or without poster and background)
ProviderResults(p) ==
    {EmptyResult}
    \cup {AdapterResult(p, po, bg) :
            po \in {None, PosterUrl[p]}, bg \in {None, BackgroundUrl[p]}}

\* the priority lists of the runs: the default, a list with a provider that
\* is named twice and a name that is no provider, and a list led by OMDb
PriorityLists ==
    {<<"tmdb", "fanart", "omdb">>,
     <<"fanart", "imdb", "tmdb", "fanart">>,
     <<"omdb", "tvdb", "tmdb">>}

\* the keys of self.providers: the providers that have an API key
ProviderSets == {Providers, {"tmdb", "omdb"}, {}}

\* a plausible bug: the skip ignores that backgrounds are disabled
SkipsItemNeedingBackground(ov, incl, hp, hb) == ~ov /\ hp /\ hb

\* `if not self.overwrite and has_poster and (not self.include_backgrounds
\* or has_background)`
SkipsItem(ov, incl, hp, hb) == ~ov /\ hp /\ (~incl \/ hb)

\* a plausible bug: the latest value wins
MergeFieldLastWins(cur, new) == IF new # None THEN new ELSE cur

\* `if not result.poster_url: result.poster_url = provider_result.poster_url`
MergeField(cur, new) == IF cur = None THEN new ELSE cur

\* the merge of one provider_result into result
Merge(res, ret, incl) ==
    [poster_url |-> MergeField(res.poster_url, ret.poster_url),
     background_url |-> IF incl
                        THEN MergeField(res.background_url, ret.background_url)
                        ELSE res.background_url,
     source |-> IF ret.poster_url # None \/ ret.background_url # None
                THEN ret.source ELSE res.source]

\* a plausible bug: the loop goes on until there is a background
StopsIteratingWithBackground(res, incl) ==
    res.poster_url # None /\ res.background_url # None

\* `if result.poster_url and (not self.include_backgrounds or
\* result.background_url): break`
StopsIterating(res, incl) ==
    res.poster_url # None /\ (~incl \/ res.background_url # None)

\* a plausible bug: a found poster is applied whatever the item has
AppliesPosterAlways(res, ov, hp) == res.poster_url # None

\* `if result.poster_url and (self.overwrite or not has_poster)`
AppliesPoster(res, ov, hp) == res.poster_url # None /\ (ov \/ ~hp)

\* `if self.include_backgrounds and result.background_url and
\* (self.overwrite or not has_background)`
AppliesBackground(res, incl, ov, hb) ==
    incl /\ res.background_url # None /\ (ov \/ ~hb)

\* the item of the call: item.ratingKey, item.title, item.thumbUrl and
\* item.artUrl
ItemRatingKey == "101"
ItemTitle == "Fight Club"
ThumbUrl(hp) == IF hp THEN "thumb101" ELSE None
ArtUrl(hb) == IF hb THEN "art101" ELSE None

\* the dictionary appended to self.proposed_changes for the poster
PosterProposal(res, hp) ==
    [item_rating_key |-> ItemRatingKey, title |-> ItemTitle,
     current_poster |-> ThumbUrl(hp), new_poster |-> res.poster_url,
     source |-> res.source]

\* the dictionary appended to self.proposed_changes for the background
BackgroundProposal(res, hb) ==
    [item_rating_key |-> ItemRatingKey, title |-> ItemTitle,
     current_background |-> ArtUrl(hb), new_background |-> res.background_url,
     source |-> res.source]

\* a plausible bug: the `return` that ends the approval branch is missing
GoesOnAfterProposing(fa) == FALSE

\* `if self.final_approval: ... return`: nothing after the proposals runs
ReturnsAfterProposing(fa) == fa

InitProcess ==
    /\ prpc = "idle"
    /\ overwrite = FALSE
    /\ include_backgrounds = TRUE
    /\ final_approval = FALSE
    /\ fa_assigned = TRUE
    /\ dry_run = TRUE
    /\ provider_priority = <<"tmdb", "fanart", "omdb">>
    /\ providers = {}
    /\ has_poster = FALSE
    /\ has_background = FALSE
    /\ result = EmptyResult
    /\ pridx = 0
    /\ called = <<>>
    /\ uploads = <<>>
    /\ proposed_changes = <<>>
    /\ change_log = <<>>

\* _process_item is called: the skip test, then result = ArtResult()
ProcessBegin ==
    /\ prpc = "called"
    /\ IF SkipsItem(overwrite, include_backgrounds, has_poster, has_background)
       THEN prpc' = "skipped" /\ UNCHANGED <<result, pridx>>
       ELSE prpc' = "loop" /\ result' = EmptyResult /\ pridx' = 1
    /\ UNCHANGED <<called, uploads, proposed_changes, change_log, optionVars>>
    /\ UNCHANGED <<tailVars, clockVars, limVars, waitVars, regVars, cdThreadVars,
                   adapterVars, sgVars, pickVars, runVars>>

\* one iteration of `for provider_name in self.provider_priority`: the
\* get_art call of a configured provider, the merge, and the break test
ProcessProvider ==
    /\ prpc = "loop"
    /\ pridx <= Len(provider_priority)
    /\ LET name == provider_priority[pridx] IN
       \E ret \in IF name \in providers THEN ProviderResults(name)
                   ELSE {EmptyResult} :
          LET merged == IF name \in providers
                        THEN Merge(result, ret, include_backgrounds)
                        ELSE result
          IN /\ result' = merged
             /\ called' = IF name \in providers
                           THEN Append(called, [name |-> name, pos |-> pridx,
                                                ret |-> ret, before |-> result])
                           ELSE called
             /\ IF StopsIterating(merged, include_backgrounds)
                THEN prpc' = "apply" /\ pridx' = pridx
                ELSE prpc' = "loop" /\ pridx' = pridx + 1
    /\ UNCHANGED <<uploads, proposed_changes, change_log, optionVars>>
    /\ UNCHANGED <<tailVars, clockVars, limVars, waitVars, regVars, cdThreadVars,
                   adapterVars, sgVars, pickVars, runVars>>

\* the priority list is exhausted
ProcessLoopEnd ==
    /\ prpc = "loop"
    /\ pridx > Len(provider_priority)
    /\ prpc' = "apply"
    /\ UNCHANGED <<result, pridx, called, uploads, proposed_changes,
                   change_log, optionVars>>
    /\ UNCHANGED <<tailVars, clockVars, limVars, waitVars, regVars, cdThreadVars,
                   adapterVars, sgVars, pickVars, runVars>>

\* `if self.final_approval:` when the attribute was never assigned:
\* __init__ does not assign it, _get_processing_options_from_config (the
\* web path) does, _get_processing_options (the interactive path) does not;
\* the AttributeError leaves _process_item
ProcessNoAttribute ==
    /\ prpc = "apply"
    /\ ~fa_assigned
    /\ prpc' = "raised"
    /\ UNCHANGED <<result, pridx, called, uploads, proposed_changes,
                   change_log, optionVars>>
    /\ UNCHANGED <<tailVars, clockVars, limVars, waitVars, regVars, cdThreadVars,
                   adapterVars, sgVars, pickVars, runVars>>

\* `if self.final_approval:` the proposed changes are recorded
ProcessPropose ==
    /\ prpc = "apply"
    /\ fa_assigned
    /\ final_approval
    /\ LET pp == IF AppliesPoster(result, overwrite, has_poster)
                 THEN <<PosterProposal(result, has_poster)>>
                 ELSE <<>>
           pb == IF AppliesBackground(result, include_backgrounds, overwrite,
                                      has_background)
                 THEN <<BackgroundProposal(result, has_background)>>
                 ELSE <<>>
       IN proposed_changes' = proposed_changes \o pp \o pb
    /\ prpc' = "done"
    /\ UNCHANGED <<result, pridx, called, uploads, change_log, optionVars>>
    /\ UNCHANGED <<tailVars, clockVars, limVars, waitVars, regVars, cdThreadVars,
                   adapterVars, sgVars, pickVars, runVars>>

\* a plausible bug: the dry-run branch logs and uploads all the same
UploadsInDryRun(dry) == TRUE

\* `if self.dry_run: log.info(...) else: item.upload...`
UploadsFor(dry) == ~dry

\* without final approval: the uploads (each may raise), and the change-log
\* entry
ProcessApply ==
    /\ prpc = "apply"
    /\ fa_assigned
    /\ ~ReturnsAfterProposing(final_approval)
    /\ \E okPoster \in BOOLEAN, okArt \in BOOLEAN :
       LET doPoster == AppliesPoster(result, overwrite, has_poster)
           doArt == AppliesBackground(result, include_backgrounds, overwrite,
                                      has_background)
           up == (IF doPoster /\ UploadsFor(dry_run)
                  THEN <<[kind |-> "poster", url |-> result.poster_url,
                          ok |-> okPoster]>>
                  ELSE <<>>)
                 \o (IF doArt /\ UploadsFor(dry_run)
                     THEN <<[kind |-> "background",
                             url |-> result.background_url, ok |-> okArt]>>
                     ELSE <<>>)
           updated == \E i \in 1..Len(up) : up[i].ok
       IN /\ (doPoster /\ UploadsFor(dry_run)) \/ okPoster
          /\ (doArt /\ UploadsFor(dry_run)) \/ okArt
          /\ uploads' = uploads \o up
          /\ change_log' =
                IF updated \/ (dry_run /\ (result.poster_url # None
                                            \/ result.background_url # None))
                THEN Append(change_log,
                            [poster_changed |-> doPoster,
                             background_changed |-> doArt,
                             source |-> result.source, dry_run |-> dry_run])
                ELSE change_log
    /\ prpc' = "done"
    /\ UNCHANGED <<result, pridx, called, proposed_changes, optionVars>>
    /\ UNCHANGED <<tailVars, clockVars, limVars, waitVars, regVars, cdThreadVars,
                   adapterVars, sgVars, pickVars, runVars>>

(***************************************************************************)
(* run_web and its two callers: the /run route and the scheduler callback  *)
(***************************************************************************)
\* the run requests of a behaviour; every request that gets as far as
\* run_web has a thread of its own (threading.Thread(target=part.run_web))
Runs == 1..MaxRuns

\* a progress event: {"type": "progress", "completed": c, "total": t}
ProgressEvent(c, t) == [completed |-> c, total |-> t]

\* no progress event yet, and a loop that is not over
NoProgress == [completed |-> -1, total |-> -1]

\* how a run leaves the try block of run_web before its loop
EarlyReturns == {"no_plex", "no_libraries"}

\* `self.is_running = False` in PArt.__init__; no request has been made
InitRun ==
    /\ is_running = FALSE
    /\ rpc = [r \in Runs |-> "new"]
    /\ rorigin = [r \in Runs |-> None]
    /\ rbusy = [r \in Runs |-> FALSE]
    /\ ritems = [r \in Runs |-> 0]
    /\ progress_total = 0
    /\ progress_done = 0
    /\ rtotal = [r \in Runs |-> -1]
    /\ rexit = [r \in Runs |-> None]
    /\ rstat = [r \in Runs |-> None]
    /\ remitted = [r \in Runs |-> 0]
    /\ rfinal = [r \in Runs |-> NoProgress]
    /\ lastprog = NoProgress

\* what the run_web threads leave alone
notRun == <<tailVars, clockVars, limVars, waitVars, regVars, cdThreadVars,
            adapterVars, sgVars, pickVars, optionVars>>

\* the requests are numbered in the order in which they are made
IsNextRequest(r) == rpc[r] = "new" /\ \A q \in Runs : q < r => rpc[q] # "new"

\* the runs that are past `self.is_running = True` and before the finally
InProgress == {r \in Runs : rpc[r] = "body"}

\* POST /run: `if part.is_running: return redirect(...)`, else a thread that
\* will call part.run_web is started
RouteRun(r) ==
    /\ IsNextRequest(r)
    /\ rpc' = [rpc EXCEPT ![r] = IF is_running THEN "refused" ELSE "entry"]
    /\ rorigin' = [rorigin EXCEPT ![r] = "route"]
    /\ UNCHANGED <<is_running, rbusy, ritems, progress_total, progress_done,
                   rtotal, rexit, rstat, remitted, rfinal, lastprog>>
    /\ UNCHANGED <<notRun, processVars>>

\* the scheduler's job fires: the callback starts a thread that will call
\* part.run_web, without a test
SchedulerFire(r) ==
    /\ IsNextRequest(r)
    /\ rpc' = [rpc EXCEPT ![r] = "entry"]
    /\ rorigin' = [rorigin EXCEPT ![r] = "scheduler"]
    /\ UNCHANGED <<is_running, rbusy, ritems, progress_total, progress_done,
                   rtotal, rexit, rstat, remitted, rfinal, lastprog>>
    /\ UNCHANGED <<notRun, processVars>>

\* a plausible bug: the guard at the head of run_web is missing
RunsRegardless(flag) == FALSE

\* the guard at the head of run_web: `if self.is_running`
AlreadyRunning(flag) == flag

\* run_web, `if self.is_running: return` (a warning is logged, no status or
\* progress event is made)
RunWebTest(r) ==
    /\ rpc[r] = "entry"
    /\ rpc' = [rpc EXCEPT ![r] = IF AlreadyRunning(is_running)
                                  THEN "ignored" ELSE "passed"]
    /\ rbusy' = [rbusy EXCEPT ![r] = InProgress # {}]
    /\ UNCHANGED <<is_running, rorigin, ritems, progress_total, progress_done,
                   rtotal, rexit, rstat, remitted, rfinal, lastprog>>
    /\ UNCHANGED <<notRun, processVars>>

\* run_web, `self.is_running = True`, _set_status("running"), the resets of
\* the logs and _reset_progress(0), all before the try block
RunWebSet(r) ==
    /\ rpc[r] = "passed"
    /\ is_running' = TRUE
    /\ rstat' = [rstat EXCEPT ![r] = "running"]
    /\ change_log' = <<>>
    /\ proposed_changes' = <<>>
    /\ progress_total' = 0
    /\ progress_done' = 0
    /\ lastprog' = ProgressEvent(0, 0)
    /\ remitted' = [remitted EXCEPT ![r] = @ + 2]
    /\ rpc' = [rpc EXCEPT ![r] = "body"]
    /\ UNCHANGED <<rorigin, rbusy, ritems, rtotal, rexit, rfinal>>
    /\ UNCHANGED <<prpc, result, pridx, called, uploads>>
    /\ UNCHANGED notRun

\* run_web, the returns inside the try block before the libraries are read:
\* _connect_to_plex failed, or no library is configured
RunWebEarly(r) ==
    /\ rpc[r] = "body" /\ rexit[r] = None /\ rtotal[r] = -1
    /\ \E why \in EarlyReturns : rexit' = [rexit EXCEPT ![r] = why]
    /\ UNCHANGED <<is_running, rpc, rorigin, rbusy, ritems, progress_total,
                   progress_done, rtotal, rstat, remitted, rfinal, lastprog>>
    /\ UNCHANGED <<notRun, processVars>>

\* run_web: the libraries are enumerated, _reset_progress(total_items), and
\* `if total_items == 0: return`
RunWebEnumerate(r) ==
    /\ rpc[r] = "body" /\ rexit[r] = None /\ rtotal[r] = -1
    /\ \E n \in 0..MaxItems :
        /\ rtotal' = [rtotal EXCEPT ![r] = n]
        /\ progress_total' = n
        /\ progress_done' = 0
        /\ lastprog' = ProgressEvent(0, n)
        /\ rexit' = [rexit EXCEPT ![r] = IF n = 0 THEN "no_items" ELSE None]
    /\ remitted' = [remitted EXCEPT ![r] = @ + 1]
    /\ UNCHANGED <<is_running, rpc, rorigin, rbusy, ritems, rstat, rfinal>>
    /\ UNCHANGED <<notRun, processVars>>

\* what _process_item does with the item, as the run sees it: it raises,
\* it finds nothing to change, or it changes the item and logs the change
ItemOutcomes == {"raised", "nothing", "changed"}

\* the change-log entry of an item whose poster was replaced
RunLogEntry ==
    [poster_changed |-> TRUE, background_changed |-> FALSE, source |-> "tmdb",
     dry_run |-> FALSE]

\* run_web, one turn of `for i, item in enumerate(items)`: the item is
\* processed (how _process_item comes to its outcome is in the section
\* above) and _increment_progress() follows, unless _process_item raised
RunWebItem(r) ==
    /\ rpc[r] = "body" /\ rexit[r] = None
    /\ rtotal[r] >= 0
    /\ ritems[r] < rtotal[r]
    /\ ritems' = [ritems EXCEPT ![r] = @ + 1]
    /\ \E out \in ItemOutcomes :
        /\ change_log' = IF out = "changed"
                         THEN Append(change_log, RunLogEntry)
                         ELSE change_log
        /\ IF out = "raised"
           THEN /\ rexit' = [rexit EXCEPT ![r] = "raised"]
                /\ UNCHANGED <<progress_done, lastprog, remitted>>
           ELSE /\ progress_done' = Min(progress_total, progress_done + 1)
                /\ lastprog' =
                      ProgressEvent(Min(progress_total, progress_done + 1),
                                    progress_total)
                /\ remitted' = [remitted EXCEPT ![r] = @ + 1]
                /\ UNCHANGED rexit
    /\ UNCHANGED <<is_running, rpc, rorigin, rbusy, progress_total, rtotal,
                   rstat, rfinal>>
    /\ UNCHANGED <<prpc, result, pridx, called, uploads, proposed_changes>>
    /\ UNCHANGED notRun

\* run_web after the last item: self.cache.save() and the end of the try
RunWebSave(r) ==
    /\ rpc[r] = "body" /\ rexit[r] = None
    /\ rtotal[r] > 0
    /\ ritems[r] = rtotal[r]
    /\ rexit' = [rexit EXCEPT ![r] = "finished"]
    /\ rfinal' = [rfinal EXCEPT ![r] =
                     ProgressEvent(progress_done, progress_total)]
    /\ UNCHANGED <<is_running, rpc, rorigin, rbusy, ritems, progress_total,
                   progress_done, rtotal, rstat, remitted, lastprog>>
    /\ UNCHANGED <<notRun, processVars>>

\* a plausible bug: the status is reset at the end of the try block only
LeavesAfterSuccess(exit) == exit = "finished"

\* `try: ... finally:`: the finally runs however the try block is left
LeavesThroughFinally(exit) == exit # None

\* run_web, `finally: self.is_running = False` and _set_status("idle"):
\* after the last item, after one of the returns of the try block, or after
\* an exception
RunWebFinally(r) ==
    /\ rpc[r] = "body" /\ LeavesThroughFinally(rexit[r])
    /\ is_running' = FALSE
    /\ rstat' = [rstat EXCEPT ![r] = "idle"]
    /\ remitted' = [remitted EXCEPT ![r] = @ + 1]
    /\ rpc' = [rpc EXCEPT ![r] = "done"]
    /\ UNCHANGED <<rorigin, rbusy, ritems, progress_total, progress_done,
                   rtotal, rexit, rfinal, lastprog>>
    /\ UNCHANGED <<notRun, processVars>>

(***************************************************************************)
(* The batch: the library and item loops of run_web and of run             *)
(***************************************************************************)
Libs == 1..MaxLibs

\* no batch has been started
InitBatch ==
    /\ bmode = None
    /\ bpc = "idle"
    /\ bfail = [l \in Libs |-> FALSE]
    /\ bsize = [l \in Libs |-> 0]
    /\ braises = {}
    /\ bbatches = <<>>
    /\ blib = 0
    /\ bitem = 0
    /\ bprocessed = {}
    /\ bmem = 0
    /\ bdisk = 0
    /\ bsaves = 0

\* what the batch actions leave alone
notBatch == <<clockVars, limVars, waitVars, regVars, cdThreadVars, adapterVars,
              sgVars, pickVars, optionVars, prpc, result, pridx, called, uploads,
              rpc, rorigin, rbusy, ritems, progress_total, progress_done,
              rtotal, rexit, rstat, remitted, rfinal, lastprog,
              persistVars, quotaVars,
              dayVars, streamVars>>

\* total_items of run_web: the items of the libraries that were enumerated
RECURSIVE TotalItems(_, _)
TotalItems(batches, size) ==
    IF batches = <<>> THEN 0
    ELSE size[Head(batches)] + TotalItems(Tail(batches), size)

\* Cache.save as the batch sees it: the entries in memory reach the file,
\* unless write_text fails (`except Exception: pass`)
SavedEntries(mem, disk, ok) == IF ok THEN mem ELSE disk

\* the head of run_web (is_running, the resets) and of run (the resets), up
\* to the library loop
BatchBegin ==
    /\ bpc = "called"
    /\ is_running' = (bmode = "web")
    /\ change_log' = <<>>
    /\ proposed_changes' = <<>>
    /\ bpc' = IF bmode = "web" THEN "enumerate" ELSE "library"
    /\ blib' = 1
    /\ UNCHANGED <<bmode, bfail, bsize, braises, bbatches, bitem, bprocessed,
                   bmem, bdisk, bsaves>>
    /\ UNCHANGED notBatch

\* run_web, one turn of the first `for library in self.libraries`:
\* library.all(), whose failure is logged and skips the library
BatchFetchItems ==
    /\ bpc = "enumerate"
    /\ blib <= MaxLibs
    /\ bbatches' = IF bfail[blib] THEN bbatches ELSE Append(bbatches, blib)
    /\ blib' = blib + 1
    /\ UNCHANGED <<bmode, bpc, bfail, bsize, braises, bitem, bprocessed, bmem,
                   bdisk, bsaves>>
    /\ UNCHANGED <<notBatch, is_running, change_log, proposed_changes>>

\* run_web after the enumeration: `if total_items == 0: return` (through the
\* finally), else the loop over library_batches starts
BatchFetched ==
    /\ bpc = "enumerate"
    /\ blib > MaxLibs
    /\ IF TotalItems(bbatches, bsize) = 0
       THEN /\ bpc' = "done" /\ is_running' = FALSE
            /\ UNCHANGED <<blib, bitem>>
       ELSE /\ bpc' = "items" /\ blib' = 1 /\ bitem' = 1
            /\ UNCHANGED is_running
    /\ UNCHANGED <<bmode, bfail, bsize, braises, bbatches, bprocessed, bmem,
                   bdisk, bsaves>>
    /\ UNCHANGED <<notBatch, change_log, proposed_changes>>

\* run_web, one turn of `for i, item in enumerate(items)`: _process_item
\* returns, or raises (get_art raises on a body that is not the expected
\* JSON); nothing catches the exception before the finally
BatchItemWeb ==
    /\ bpc = "items" /\ bmode = "web"
    /\ blib <= Len(bbatches)
    /\ bitem <= bsize[bbatches[blib]]
    /\ \E raises \in BOOLEAN, n \in {0, 1} :
        /\ bprocessed' = bprocessed \cup {<<bbatches[blib], bitem>>}
        /\ bmem' = bmem + n
        /\ IF raises
           THEN /\ braises' = braises \cup {<<bbatches[blib], bitem>>}
                /\ bpc' = "done" /\ is_running' = FALSE
                /\ UNCHANGED bitem
           ELSE /\ bitem' = bitem + 1
                /\ UNCHANGED <<braises, bpc, is_running>>
    /\ UNCHANGED <<bmode, bfail, bsize, bbatches, blib, bdisk, bsaves>>
    /\ UNCHANGED <<notBatch, change_log, proposed_changes>>

\* run_web: the items of one library are exhausted
BatchNextLibWeb ==
    /\ bpc = "items" /\ bmode = "web"
    /\ blib <= Len(bbatches)
    /\ bitem > bsize[bbatches[blib]]
    /\ blib' = blib + 1
    /\ bitem' = 1
    /\ UNCHANGED <<bmode, bpc, bfail, bsize, braises, bbatches, bprocessed,
                   bmem, bdisk, bsaves>>
    /\ UNCHANGED <<notBatch, is_running, change_log, proposed_changes>>

\* run_web after the last library: self.cache.save(), then the finally
BatchEndWeb ==
    /\ bpc = "items" /\ bmode = "web"
    /\ blib > Len(bbatches)
    /\ \E ok \in BOOLEAN : bdisk' = SavedEntries(bmem, bdisk, ok)
    /\ bsaves' = bsaves + 1
    /\ is_running' = FALSE
    /\ bpc' = "done"
    /\ UNCHANGED <<bmode, bfail, bsize, braises, bbatches, blib, bitem,
                   bprocessed, bmem>>
    /\ UNCHANGED <<notBatch, change_log, proposed_changes>>

\* run, one turn of `for library in self.libraries`: library.all() inside
\* the try; its failure is printed and the next library follows
BatchLibraryCli ==
    /\ bpc = "library"
    /\ blib <= MaxLibs
    /\ IF bfail[blib]
       THEN blib' = blib + 1 /\ UNCHANGED <<bpc, bitem>>
       ELSE bpc' = "items" /\ bitem' = 1 /\ UNCHANGED blib
    /\ UNCHANGED <<bmode, bfail, bsize, braises, bbatches, bprocessed, bmem,
                   bdisk, bsaves>>
    /\ UNCHANGED <<notBatch, is_running, change_log, proposed_changes>>

\* run, one turn of the item loop: an exception of _process_item is caught
\* by the `except` of the library's try, outside the item loop
BatchItemCli ==
    /\ bpc = "items" /\ bmode = "cli"
    /\ bitem <= bsize[blib]
    /\ \E raises \in BOOLEAN, n \in {0, 1} :
        /\ bprocessed' = bprocessed \cup {<<blib, bitem>>}
        /\ bmem' = bmem + n
        /\ IF raises
           THEN /\ braises' = braises \cup {<<blib, bitem>>}
                /\ bpc' = "library" /\ blib' = blib + 1
                /\ UNCHANGED bitem
           ELSE /\ bitem' = bitem + 1
                /\ UNCHANGED <<braises, bpc, blib>>
    /\ UNCHANGED <<bmode, bfail, bsize, bbatches, bdisk, bsaves>>
    /\ UNCHANGED <<notBatch, is_running, change_log, proposed_changes>>

\* run: the items of one library are exhausted
BatchNextLibCli ==
    /\ bpc = "items" /\ bmode = "cli"
    /\ bitem > bsize[blib]
    /\ bpc' = "library"
    /\ blib' = blib + 1
    /\ UNCHANGED <<bmode, bfail, bsize, braises, bbatches, bitem, bprocessed,
                   bmem, bdisk, bsaves>>
    /\ UNCHANGED <<notBatch, is_running, change_log, proposed_changes>>

\* run after the last library: self.cache.save()
BatchEndCli ==
    /\ bpc = "library"
    /\ blib > MaxLibs
    /\ \E ok \in BOOLEAN : bdisk' = SavedEntries(bmem, bdisk, ok)
    /\ bsaves' = bsaves + 1
    /\ bpc' = "done"
    /\ UNCHANGED <<bmode, bfail, bsize, braises, bbatches, blib, bitem,
                   bprocessed, bmem>>
    /\ UNCHANGED <<notBatch, is_running, change_log, proposed_changes>>

(***************************************************************************)
(* The cache file: Cache.save, Cache.set and Cache._load across a crash    *)
(* (QuotaTracker.save and QuotaTracker._load are written the same way)     *)
(***************************************************************************)
\* the file holds the whole text of a snapshot of n entries
WholeFile(n) == [whole |-> TRUE, data |-> n]

\* the file was opened for writing (truncated) and the text is not, or not
\* all, in it
PartialFile == [whole |-> FALSE, data |-> 0]

\* Cache._load: json.loads of the file, and {} when it raises
LoadFile(f) == IF f.whole THEN f.data ELSE 0

\* the process has started with an empty cache file
InitPersist ==
    /\ fmem = 0
    /\ ffile = WholeFile(0)
    /\ flock = 0
    /\ fpc = [t \in Threads |-> "idle"]
    /\ fsnap = [t \in Threads |-> 0]
    /\ fpoints = {0}
    /\ fdone = 0
    /\ falive = TRUE
    /\ floaded = -1

notPersist == <<clockVars, limVars, waitVars, regVars, cdThreadVars,
                adapterVars, sgVars, pickVars, optionVars, processVars, runVars,
                batchVars, quotaVars, dayVars, streamVars>>

\* Cache.set: the assignment inside `with self._lock`
CacheSetEntry(t) ==
    /\ falive
    /\ fpc[t] = "idle"
    /\ flock = 0
    /\ fmem < MaxSets
    /\ fmem' = fmem + 1
    /\ UNCHANGED <<ffile, flock, fpc, fsnap, fpoints, fdone, falive, floaded>>
    /\ UNCHANGED notPersist

\* Cache.save: the lock is taken and json.dumps(self._cache) is evaluated
SaveDumps(t) ==
    /\ falive
    /\ fpc[t] = "idle"
    /\ flock = 0
    /\ flock' = t
    /\ fsnap' = [fsnap EXCEPT ![t] = fmem]
    /\ fpoints' = fpoints \cup {fmem}
    /\ fpc' = [fpc EXCEPT ![t] = "dumped"]
    /\ UNCHANGED <<fmem, ffile, fdone, falive, floaded>>
    /\ UNCHANGED notPersist

\* Path.write_text opens the file with mode "w": the file is truncated
SaveOpen(t) ==
    /\ falive
    /\ fpc[t] = "dumped"
    /\ ffile' = PartialFile
    /\ fpc' = [fpc EXCEPT ![t] = "opened"]
    /\ UNCHANGED <<fmem, flock, fsnap, fpoints, fdone, falive, floaded>>
    /\ UNCHANGED notPersist

\* the text is written and the file closed, or the write raises (the
\* `except Exception: pass` swallows it); the lock is released
SaveWrite(t) ==
    /\ falive
    /\ fpc[t] = "opened"
    /\ \E ok \in BOOLEAN :
          /\ ffile' = IF ok THEN WholeFile(fsnap[t]) ELSE PartialFile
          /\ fdone' = IF ok THEN fsnap[t] ELSE fdone
    /\ flock' = 0
    /\ fpc' = [fpc EXCEPT ![t] = "idle"]
    /\ UNCHANGED <<fmem, fsnap, fpoints, falive, floaded>>
    /\ UNCHANGED notPersist

\* the process is killed: the memory and the lock are gone, the file stays
Crash ==
    /\ falive
    /\ falive' = FALSE
    /\ flock' = 0
    /\ fpc' = [t \in Threads |-> "idle"]
    /\ UNCHANGED <<fmem, ffile, fsnap, fpoints, fdone, floaded>>
    /\ UNCHANGED notPersist

\* the program starts again: Cache.__init__ calls _load
Restart ==
    /\ ~falive
    /\ floaded = -1
    /\ floaded' = LoadFile(ffile)
    /\ UNCHANGED <<fmem, ffile, flock, fpc, fsnap, fpoints, fdone, falive>>
    /\ UNCHANGED notPersist

(***************************************************************************)
(* QuotaTracker (src/quota_tracker.py)                                     *)
(***************************************************************************)
\* the values of ProviderName
QuotaProviders == {"tmdb", "fanart", "omdb", "tvdb", "plex_uploaded"}

\* the providers whose requests are counted in the model
CountedProviders == {"tmdb", "fanart"}

\* the count arguments of increment
QuotaCounts == {1, 999}

\* the days of a behaviour: today and tomorrow
Days == {1, 2}

\* the limit of TMDb and of OMDb in DAILY_QUOTAS
DailyQuotaLimit == 1000

\* a day without entry under a provider of self._quotas
NoCount == -1

\* DAILY_QUOTAS: the keys, and the limits that are not None
HasQuotaEntry(p) == p \in {"tmdb", "omdb", "fanart", "tvdb"}
QuotaLimited(p) == p \in {"tmdb", "omdb"}

\* `self._quotas.get(provider, {}).get(date_key, 0)`
UsageOf(q, p, d) == IF q[p][d] = NoCount THEN 0 ELSE q[p][d]

\* Optional[int]: None, or a number
NoRemaining == [none |-> TRUE, value |-> 0]
SomeRemaining(n) == [none |-> FALSE, value |-> n]

\* get_remaining, given what get_usage returned
GetRemaining(p, usage) ==
    IF ~HasQuotaEntry(p) THEN NoRemaining
    ELSE IF ~QuotaLimited(p) THEN NoRemaining
    ELSE SomeRemaining(Max(0, DailyQuotaLimit - usage))

\* a plausible bug: the quota counts as exceeded only beyond the limit
ExceededBelowZero(remaining) == remaining.value < 0

\* is_quota_exceeded: `return remaining <= 0`
ExceededTest(remaining) == remaining.value <= 0

\* is_quota_exceeded, given what get_remaining returned
IsQuotaExceeded(remaining) ==
    IF remaining.none THEN FALSE ELSE ExceededTest(remaining)

NoObs == [prov |-> None]

\* the time zones of the process: UTC, one ahead of it, one behind it
Zones == {"utc", "east", "west"}

\* a call that has not begun
NotMade == [local |-> 0, utc |-> 0]

\* a plausible bug: the date key is the UTC date (time.gmtime())
GetUtcDateKey(local, utc) == utc

\* _get_date_key: time.strftime("%Y-%m-%d") formats time.localtime()
GetDateKey(local, utc) == local

\* QuotaTracker.__init__ with no quota file
InitQuotaCounters ==
    /\ quotas = [p \in QuotaProviders |-> [d \in Days |-> NoCount]]
    /\ qday = 1
    /\ qutc = 1
    /\ qlock = 0
    /\ qpc = [t \in Threads |-> "idle"]
    /\ qprov = [t \in Threads |-> None]
    /\ qcount = [t \in Threads |-> 0]
    /\ qkey = [t \in Threads |-> 0]
    /\ qtmp = [t \in Threads |-> 0]
    /\ qmade = [t \in Threads |-> NotMade]
    /\ qsum = [p \in QuotaProviders |-> [d \in Days |-> 0]]
    /\ qlsum = [p \in QuotaProviders |-> [d \in Days |-> 0]]
    /\ qusum = [p \in QuotaProviders |-> [d \in Days |-> 0]]
    /\ qobs = NoObs
    /\ qcalls = 0

\* the tracker of a process that runs in UTC
InitQuota == InitQuotaCounters /\ qzone = "utc"

notQuota == <<clockVars, limVars, waitVars, regVars, cdThreadVars, adapterVars,
              sgVars, pickVars, optionVars, processVars, runVars, batchVars,
              persistVars, streamVars>>

\* local midnight passes; in UTC it is the UTC midnight too, ahead of UTC it
\* comes before the UTC midnight and behind UTC after it
NextDay ==
    /\ qday + 1 \in Days
    /\ qzone = "east" => qday = qutc
    /\ qzone = "west" => qday < qutc
    /\ qday' = qday + 1
    /\ qutc' = IF qzone = "utc" THEN qutc + 1 ELSE qutc
    /\ UNCHANGED <<quotas, qlock, qpc, qprov, qcount, qkey, qtmp, qsum, qobs,
                   qcalls, qzone, qmade, qlsum, qusum>>
    /\ UNCHANGED notQuota

\* UTC midnight passes in a process that does not run in UTC
UtcMidnight ==
    /\ qzone # "utc"
    /\ qutc + 1 \in Days
    /\ qzone = "east" => qutc < qday
    /\ qzone = "west" => qutc = qday
    /\ qutc' = qutc + 1
    /\ UNCHANGED <<quotas, qday, qlock, qpc, qprov, qcount, qkey, qtmp, qsum,
                   qobs, qcalls, qzone, qmade, qlsum, qusum>>
    /\ UNCHANGED notQuota

\* a plausible bug: the counter is updated without the lock
QuotaLockIgnored(l) == TRUE

\* `with self._lock` can be entered
QuotaLockFree(l) == l = 0

\* increment(provider, count): `date_key = self._get_date_key()`
IncBegin(t, p, n) ==
    /\ qpc[t] = "idle"
    /\ qcalls < MaxQuotaCalls
    /\ qcalls' = qcalls + 1
    /\ qprov' = [qprov EXCEPT ![t] = p]
    /\ qcount' = [qcount EXCEPT ![t] = n]
    /\ qkey' = [qkey EXCEPT ![t] = GetDateKey(qday, qutc)]
    /\ qmade' = [qmade EXCEPT ![t] = [local |-> qday, utc |-> qutc]]
    /\ qpc' = [qpc EXCEPT ![t] = "inc_enter"]
    /\ UNCHANGED <<quotas, qday, qlock, qtmp, qsum, qobs, qzone, qutc, qlsum,
                   qusum>>
    /\ UNCHANGED notQuota

\* increment: the lock is taken and the missing entries are created
IncLock(t) ==
    /\ qpc[t] = "inc_enter"
    /\ QuotaLockFree(qlock)
    /\ qlock' = t
    /\ quotas' = [quotas EXCEPT ![qprov[t]][qkey[t]] =
                     IF @ = NoCount THEN 0 ELSE @]
    /\ qpc' = [qpc EXCEPT ![t] = "inc_read"]
    /\ UNCHANGED <<qday, qprov, qcount, qkey, qtmp, qsum, qobs, qcalls, qzone,
                   qutc, qmade, qlsum, qusum>>
    /\ UNCHANGED notQuota

\* increment, `self._quotas[provider][date_key] += count`: the read
IncRead(t) ==
    /\ qpc[t] = "inc_read"
    /\ qtmp' = [qtmp EXCEPT ![t] = quotas[qprov[t]][qkey[t]]]
    /\ qpc' = [qpc EXCEPT ![t] = "inc_write"]
    /\ UNCHANGED <<quotas, qday, qlock, qprov, qcount, qkey, qsum, qobs,
                   qcalls, qzone, qutc, qmade, qlsum, qusum>>
    /\ UNCHANGED notQuota

\* increment, `+=`: the store, and the end of the `with`
IncWrite(t) ==
    /\ qpc[t] = "inc_write"
    /\ quotas' = [quotas EXCEPT ![qprov[t]][qkey[t]] = qtmp[t] + qcount[t]]
    /\ qsum' = [qsum EXCEPT ![qprov[t]][qkey[t]] = @ + qcount[t]]
    /\ qlsum' = [qlsum EXCEPT ![qprov[t]][qmade[t].local] = @ + qcount[t]]
    /\ qusum' = [qusum EXCEPT ![qprov[t]][qmade[t].utc] = @ + qcount[t]]
    /\ qlock' = 0
    /\ qpc' = [qpc EXCEPT ![t] = "idle"]
    /\ qprov' = [qprov EXCEPT ![t] = None]
    /\ qcount' = [qcount EXCEPT ![t] = 0]
    /\ qkey' = [qkey EXCEPT ![t] = 0]
    /\ qtmp' = [qtmp EXCEPT ![t] = 0]
    /\ qmade' = [qmade EXCEPT ![t] = NotMade]
    /\ UNCHANGED <<qday, qobs, qcalls, qzone, qutc>>
    /\ UNCHANGED notQuota

\* is_quota_exceeded(provider), get_remaining and get_usage: the date key
\* is taken before the lock
QueryBegin(t, p) ==
    /\ qpc[t] = "idle"
    /\ qcalls < MaxQuotaCalls
    /\ qcalls' = qcalls + 1
    /\ qprov' = [qprov EXCEPT ![t] = p]
    /\ qkey' = [qkey EXCEPT ![t] = GetDateKey(qday, qutc)]
    /\ qmade' = [qmade EXCEPT ![t] = [local |-> qday, utc |-> qutc]]
    /\ qpc' = [qpc EXCEPT ![t] = "query"]
    /\ UNCHANGED <<quotas, qday, qlock, qcount, qtmp, qsum, qobs, qzone, qutc,
                   qlsum, qusum>>
    /\ UNCHANGED notQuota

\* get_usage reads the counter inside the lock; get_remaining and
\* is_quota_exceeded compute their results from it
QueryRead(t) ==
    /\ qpc[t] = "query"
    /\ QuotaLockFree(qlock)
    /\ LET usage == UsageOf(quotas, qprov[t], qkey[t])
           remaining == GetRemaining(qprov[t], usage)
       IN qobs' = [prov |-> qprov[t], day |-> qkey[t], usage |-> usage,
                   finished |-> qsum[qprov[t]][qkey[t]],
                   made |-> qmade[t],
                   finishedLocal |-> qlsum[qprov[t]][qmade[t].local],
                   finishedUtc |-> qusum[qprov[t]][qmade[t].utc],
                   remaining |-> remaining,
                   exceeded |-> IsQuotaExceeded(remaining)]
    /\ qpc' = [qpc EXCEPT ![t] = "idle"]
    /\ qprov' = [qprov EXCEPT ![t] = None]
    /\ qkey' = [qkey EXCEPT ![t] = 0]
    /\ qmade' = [qmade EXCEPT ![t] = NotMade]
    /\ UNCHANGED <<quotas, qday, qlock, qcount, qtmp, qsum, qcalls, qzone,
                   qutc, qlsum, qusum>>
    /\ UNCHANGED notQuota

(***************************************************************************)
(* The event stream: _enqueue_event, get_recent_events and GET /stream     *)
(***************************************************************************)
\* the browsers connected to /stream
StreamClients == {1, 2}

\* the events of a behaviour, numbered in the order of their enqueueing
Events == 1..MaxEvents

\* `deque(maxlen=200)`
EventBufferLen == 200

\* deque.append: beyond maxlen the oldest element is dropped
DequeAppend(buf, e) ==
    IF Len(buf) < EventBufferLen THEN Append(buf, e)
    ELSE Append(Tail(buf), e)

\* the elements of a sequence
Range(seq) == {seq[i] : i \in 1..Len(seq)}

\* PArt.__init__: an empty queue and an empty buffer; nobody is connected
InitStream ==
    /\ event_queue = <<>>
    /\ event_buffer = <<>>
    /\ enqueued = 0
    /\ epending = 0
    /\ spc = [c \in StreamClients |-> "off"]
    /\ got = [c \in StreamClients |-> <<>>]
    /\ during = {}

notStream == <<clockVars, limVars, waitVars, regVars, cdThreadVars,
               adapterVars, sgVars, pickVars, optionVars, processVars, runVars,
               batchVars, persistVars, quotaVars, dayVars>>

\* _enqueue_event: `with self._event_lock: self._event_buffer.append(payload)`
EnqueueAppend ==
    /\ epending = 0
    /\ enqueued < MaxEvents
    /\ enqueued' = enqueued + 1
    /\ epending' = enqueued + 1
    /\ event_buffer' = DequeAppend(event_buffer, enqueued + 1)
    /\ UNCHANGED <<event_queue, spc, got, during>>
    /\ UNCHANGED notStream

\* _enqueue_event: `self._event_queue.put(payload)`, after the lock
EnqueuePut ==
    /\ epending # 0
    /\ event_queue' = Append(event_queue, epending)
    /\ during' = IF \A c \in StreamClients : spc[c] = "loop"
                 THEN during \cup {epending} ELSE during
    /\ epending' = 0
    /\ UNCHANGED <<event_buffer, enqueued, spc, got>>
    /\ UNCHANGED notStream

\* get_recent_events: `return list(self._event_buffer)`
GetRecentEvents(buf) == buf

\* GET /stream: the generator starts and yields the recent events
StreamConnect(c) ==
    /\ spc[c] = "off"
    /\ got' = [got EXCEPT ![c] = @ \o GetRecentEvents(event_buffer)]
    /\ spc' = [spc EXCEPT ![c] = "loop"]
    /\ UNCHANGED <<event_queue, event_buffer, enqueued, epending, during>>
    /\ UNCHANGED notStream

\* the generator's loop: `payload = part.event_queue.get(timeout=timeout)`
\* takes the oldest event off the one queue all generators share, and
\* yields it (on queue.Empty a ping is yielded, which is no event)
StreamGet(c) ==
    /\ spc[c] = "loop"
    /\ event_queue # <<>>
    /\ got' = [got EXCEPT ![c] = Append(@, Head(event_queue))]
    /\ event_queue' = Tail(event_queue)
    /\ UNCHANGED <<event_buffer, enqueued, epending, spc, during>>
    /\ UNCHANGED notStream

InitTail == InitBatch /\ InitPersist /\ InitQuota /\ InitStream

InitFetch ==
    /\ InitAdapters /\ InitSafeGet /\ InitPick /\ InitProcess /\ InitRun
    /\ InitTail

\* the state after construction; the rate-limiter and registry specifications
\* start with an empty cache and every API key
InitRL ==
    /\ InitClock /\ InitLimiters /\ InitWaiters /\ InitRegistry /\ InitCDThreads
    /\ InitFetch
    /\ cache = [s \in CacheSlots |-> NoCached]
    /\ apiKey = [p \in Providers |-> TRUE]
    /\ callsLeft = 0

NextRL ==
    \/ TickRL
    \/ \E t \in Threads, h \in RLHosts : WaitEnter(t, h)
    \/ \E t \in Threads : WaitTest(t)
    \/ \E t \in Threads : WaitWake(t)
    \/ \E t \in Threads : WaitAssign(t)

SpecRL == InitRL /\ [][NextRL]_vars

InitCooldown == InitRL

NextCooldown ==
    \/ TickCD
    \/ \E t \in Threads, p \in CDProviders, s \in CDSeconds, r \in CDReasons :
          SetBegin(t, p, s, r)
    \/ \E t \in Threads : SetCommit(t)
    \/ \E t \in Threads, p \in CDProviders : CheckBegin(t, p)
    \/ \E t \in Threads : CheckDecide(t)

SpecCooldown == InitCooldown /\ [][NextCooldown]_vars

\* a single get_art call for a movie with an empty cache and every API key,
\* the servers answering in every way of Responses
InitSafeGetCall ==
    /\ InitClock /\ InitLimiters /\ InitWaiters /\ InitRegistry /\ InitCDThreads
    /\ InitFetch
    /\ cache = [s \in CacheSlots |-> NoCached]
    /\ apiKey = [p \in Providers |-> TRUE]
    /\ callsLeft = 1

\* the items of the single call: the movies (TVDb, which takes shows only,
\* refuses them)
Movies == {item \in FetchItems : item.type = "movie"}

NextSafeGet ==
    \/ \E p \in Providers, item \in Movies : GetArtBegin(p, item)
    \/ GetArtCooldown
    \/ GetArtLookup
    \/ SGWait
    \/ SGAttempt(Responses, Jitters)
    \/ SGExhausted
    \/ GetArtResume

SpecSafeGet == InitSafeGetCall /\ [][NextSafeGet]_vars

\* the calling thread keeps running: get_art and _safe_get are sequential
\* code whose only waits are the sleeps
FairSafeGet == SpecSafeGet /\ WF_vars(NextSafeGet)

\* the answers of the servers in the specification of successive get_art
\* calls: a failed request, the bodies of a 200, and a limit message
FetchResponses ==
    {r \in Responses : r.exc \/ r.status = 200}
    \cup {ErrorResponse(204, NoHeader, "Rate limit exceeded")}

\* successive get_art calls of the worker, MaxCalls of them
InitFetcher ==
    /\ InitClock /\ InitLimiters /\ InitWaiters /\ InitRegistry /\ InitCDThreads
    /\ InitFetch
    /\ callsLeft = MaxCalls

NextFetch ==
    \/ TickFetch
    \/ \E p \in Providers, item \in FetchItems : GetArtBegin(p, item)
    \/ GetArtCooldown
    \/ GetArtLookup
    \/ SGWait
    \/ SGAttempt(FetchResponses, {0})
    \/ SGExhausted
    \/ GetArtResume

SpecFetch == InitFetcher /\ [][NextFetch]_vars

\* get_art calls of successive runs for one movie, every key configured:
\* between two calls a new run may begin and build its adapters
InitNotice ==
    /\ InitClock /\ InitLimiters /\ InitWaiters /\ InitRegistry /\ InitCDThreads
    /\ InitFetch
    /\ cache = [s \in CacheSlots |-> NoCached]
    /\ apiKey = [p \in Providers |-> TRUE]
    /\ callsLeft = MaxCalls + 1

NextNotice ==
    \/ TickFetch
    \/ \E p \in Providers, item \in Movies : GetArtBegin(p, item)
    \/ GetProviders
    \/ GetArtCooldown
    \/ GetArtLookup
    \/ SGWait
    \/ SGAttempt(FetchResponses, {0})
    \/ SGExhausted
    \/ GetArtResume

SpecNotice == InitNotice /\ [][NextNotice]_vars

\* one call of _pick_best_image for every list of ImageLists and every
\* min_width of MinWidths
InitPickCall ==
    /\ InitClock /\ InitLimiters /\ InitWaiters /\ InitRegistry /\ InitCDThreads
    /\ InitAdapters /\ InitSafeGet
    /\ cache = [s \in CacheSlots |-> NoCached]
    /\ apiKey = [p \in Providers |-> TRUE]
    /\ callsLeft = 0
    /\ ppc = "called"
    /\ pimages \in ImageLists
    /\ pmin \in MinWidths
    /\ pidx = 0
    /\ pbest = None
    /\ pbestw = 0
    /\ InitProcess
    /\ InitRun
    /\ InitTail

NextPick == PickBegin \/ PickStep \/ PickReturn

SpecPick == InitPickCall /\ [][NextPick]_vars

\* one call of _process_item for every setting of the options, every item
\* and every priority list
InitProcessCall ==
    /\ InitClock /\ InitLimiters /\ InitWaiters /\ InitRegistry /\ InitCDThreads
    /\ InitAdapters /\ InitSafeGet /\ InitPick
    /\ cache = [s \in CacheSlots |-> NoCached]
    /\ apiKey = [p \in Providers |-> TRUE]
    /\ callsLeft = 0
    /\ prpc = "called"
    /\ overwrite \in BOOLEAN
    /\ include_backgrounds \in BOOLEAN
    /\ fa_assigned \in BOOLEAN
    /\ final_approval \in (IF fa_assigned THEN BOOLEAN ELSE {FALSE})
    /\ dry_run \in BOOLEAN
    /\ provider_priority \in PriorityLists
    /\ providers \in ProviderSets
    /\ has_poster \in BOOLEAN
    /\ has_background \in BOOLEAN
    /\ result = EmptyResult
    /\ pridx = 0
    /\ called = <<>>
    /\ uploads = <<>>
    /\ proposed_changes = <<>>
    /\ change_log = <<>>
    /\ InitRun
    /\ InitTail

NextProcess ==
    \/ ProcessBegin
    \/ ProcessProvider
    \/ ProcessLoopEnd
    \/ ProcessNoAttribute
    \/ ProcessPropose
    \/ ProcessApply

SpecProcess == InitProcessCall /\ [][NextProcess]_vars

\* MaxRuns run requests, each from the /run route or from the scheduler,
\* the threads they start being interleaved in every way
InitRunCall == InitRL

NextRun ==
    \/ \E r \in Runs : RouteRun(r)
    \/ \E r \in Runs : SchedulerFire(r)
    \/ \E r \in Runs : RunWebTest(r)
    \/ \E r \in Runs : RunWebSet(r)
    \/ \E r \in Runs : RunWebEarly(r)
    \/ \E r \in Runs : RunWebEnumerate(r)
    \/ \E r \in Runs : RunWebItem(r)
    \/ \E r \in Runs : RunWebSave(r)
    \/ \E r \in Runs : RunWebFinally(r)

SpecRun == InitRunCall /\ [][NextRun]_vars

\* two run requests, and their threads taking every step they can take
WebRuns == {1, 2}

NextWeb ==
    \/ \E r \in WebRuns : RouteRun(r)
    \/ \E r \in WebRuns : SchedulerFire(r)
    \/ \E r \in WebRuns : RunWebTest(r)
    \/ \E r \in WebRuns : RunWebSet(r)
    \/ \E r \in WebRuns : RunWebEarly(r)
    \/ \E r \in WebRuns : RunWebEnumerate(r)
    \/ \E r \in WebRuns : RunWebItem(r)
    \/ \E r \in WebRuns : RunWebSave(r)
    \/ \E r \in WebRuns : RunWebFinally(r)

\* a thread that has been started runs: run_web has no blocking call
\* without a timeout
RunWebStep(r) ==
    \/ RunWebTest(r) \/ RunWebSet(r) \/ RunWebEarly(r) \/ RunWebEnumerate(r)
    \/ RunWebItem(r) \/ RunWebSave(r) \/ RunWebFinally(r)

SpecWeb == InitRunCall /\ [][NextWeb]_vars

FairWeb == SpecWeb /\ \A r \in WebRuns : WF_vars(RunWebStep(r))

\* one batch, from the web or from the command line, over libraries of
\* which any may fail to enumerate and any may be empty
InitBatchCall ==
    /\ InitClock /\ InitLimiters /\ InitWaiters /\ InitRegistry /\ InitCDThreads
    /\ InitAdapters /\ InitSafeGet /\ InitPick /\ InitProcess /\ InitRun
    /\ cache = [s \in CacheSlots |-> NoCached]
    /\ apiKey = [p \in Providers |-> TRUE]
    /\ callsLeft = 0
    /\ bmode \in {"web", "cli"}
    /\ bpc = "called"
    /\ bfail \in [Libs -> BOOLEAN]
    /\ bsize \in [Libs -> {0, MaxItems}]
    /\ braises = {}
    /\ bbatches = <<>>
    /\ blib = 0
    /\ bitem = 0
    /\ bprocessed = {}
    /\ bmem = 0
    /\ bdisk = 0
    /\ bsaves = 0
    /\ InitPersist
    /\ InitQuota
    /\ InitStream

NextBatch ==
    \/ BatchBegin
    \/ BatchFetchItems
    \/ BatchFetched
    \/ BatchItemWeb
    \/ BatchNextLibWeb
    \/ BatchEndWeb
    \/ BatchLibraryCli
    \/ BatchItemCli
    \/ BatchNextLibCli
    \/ BatchEndCli

SpecBatch == InitBatchCall /\ [][NextBatch]_vars

\* threads that set entries and save the cache in every interleaving, a
\* crash at any moment, and the restart that follows
InitPersistCall == InitRL

NextPersist ==
    \/ \E t \in Threads : CacheSetEntry(t)
    \/ \E t \in Threads : SaveDumps(t)
    \/ \E t \in Threads : SaveOpen(t)
    \/ \E t \in Threads : SaveWrite(t)
    \/ Crash
    \/ Restart

SpecPersist == InitPersistCall /\ [][NextPersist]_vars

\* threads that increment and query the tracker in every interleaving,
\* MaxQuotaCalls calls in all, over the days of Days
InitQuotaCall == InitRL

NextQuota ==
    \/ NextDay
    \/ \E t \in Threads, p \in CountedProviders, n \in QuotaCounts :
          IncBegin(t, p, n)
    \/ \E t \in Threads : IncLock(t)
    \/ \E t \in Threads : IncRead(t)
    \/ \E t \in Threads : IncWrite(t)
    \/ \E t \in Threads, p \in QuotaProviders : QueryBegin(t, p)
    \/ \E t \in Threads : QueryRead(t)

SpecQuota == InitQuotaCall /\ [][NextQuota]_vars

\* the tracker in a process of any time zone: increments by one and queries
\* of TMDb around the local and the UTC midnight
InitDayCall ==
    /\ InitClock /\ InitLimiters /\ InitWaiters /\ InitRegistry /\ InitCDThreads
    /\ InitAdapters /\ InitSafeGet /\ InitPick /\ InitProcess /\ InitRun
    /\ InitBatch /\ InitPersist /\ InitStream
    /\ InitQuotaCounters
    /\ qzone \in Zones
    /\ cache = [s \in CacheSlots |-> NoCached]
    /\ apiKey = [p \in Providers |-> TRUE]
    /\ callsLeft = 0

NextDayCall ==
    \/ NextDay
    \/ UtcMidnight
    \/ \E t \in Threads : IncBegin(t, "tmdb", 1)
    \/ \E t \in Threads : IncLock(t)
    \/ \E t \in Threads : IncRead(t)
    \/ \E t \in Threads : IncWrite(t)
    \/ \E t \in Threads : QueryBegin(t, "tmdb")
    \/ \E t \in Threads : QueryRead(t)

SpecDay == InitDayCall /\ [][NextDayCall]_vars

\* MaxEvents events are enqueued while two browsers connect to /stream and
\* read, in every interleaving
InitStreamCall == InitRL

NextStream ==
    \/ EnqueueAppend
    \/ EnqueuePut
    \/ \E c \in StreamClients : StreamConnect(c)
    \/ \E c \in StreamClients : StreamGet(c)

SpecStream == InitStreamCall /\ [][NextStream]_vars

(***************************************************************************)
(* Claims                                                                  *)
(***************************************************************************)

\* C1 (as stated): on every limiter, the instants at which two successive
\* wait() calls return are at least 1/rate seconds apart.
C1_GrantInstantsSpaced ==
    \A h \in Hosts : \A i \in 1..(Len(grants[h]) - 1) :
        grants[h][i + 1].at - grants[h][i].at >= Interval(h)

\* C1 (amended): on every limiter, the slots max(now, _next) given to
\* successive wait() calls are at least 1/rate seconds apart, no call returns
\* before its slot, and the next-eligible time is the latest slot plus the
\* interval (so it only moves forward and every caller's slot is later).
C1_SlotsSpaced ==
    \A h \in Hosts :
        /\ \A i \in 1..(Len(grants[h]) - 1) :
              grants[h][i + 1].slot - grants[h][i].slot >= Interval(h)
        /\ \A i \in 1..Len(grants[h]) : grants[h][i].at >= grants[h][i].slot
        /\ limNext[h] = IF grants[h] = <<>> THEN 0
                        ELSE grants[h][Len(grants[h])].slot + Interval(h)

\* C1 witness: two calls were granted on one limiter, the second after
\* sleeping and returning after its slot, while another thread is inside
\* wait() of the other limiter.
C1_Witness ==
    \E h \in RLHosts :
        /\ Len(grants[h]) >= 2
        /\ grants[h][2].slept /\ grants[h][2].at > grants[h][2].slot
        /\ \E t \in Threads : wpc[t] # "idle" /\ whost[t] # h

\* C5: no step lowers the stored expiry of a provider's cooldown entry, and
\* a _set_provider_cooldown call whose now + duration is not later than the
\* stored expiry leaves the registry (expiry and reason) as it was.
C5_NeverShrinks ==
    [][/\ \A p \in Providers :
            (cooldowns[p] # NoInfo /\ cooldowns'[p] # NoInfo)
                => cooldowns'[p].until >= cooldowns[p].until
       /\ \A t \in Threads :
            (/\ cpc[t] = "set" /\ cpc'[t] = "idle"
             /\ cooldowns[cprov[t]] # NoInfo
             /\ cuntil[t] <= cooldowns[cprov[t]].until)
                => cooldowns' = cooldowns]_vars

\* C5 witness: a set call that would have shortened a provider's cooldown
\* (and carried another reason) has returned and left the entry as it was.
C5_Witness ==
    /\ setLog # NoCall
    /\ setLog.before # NoInfo
    /\ setLog.until < setLog.before.until
    /\ setLog.after = setLog.before
    /\ cooldowns[setLog.prov] = setLog.before

\* C6: _provider_on_cooldown returns on-cooldown exactly when the provider
\* has an entry with now < until (with that entry's reason and until - now);
\* called with now >= until it removes the entry and returns
\* (False, None, 0); it never touches a live entry.
C6_CheckExact ==
    lastCheck # NoCall =>
        /\ lastCheck.res.on <=>
              (lastCheck.before # NoInfo /\ lastCheck.at < lastCheck.before.until)
        /\ lastCheck.res.on =>
              /\ lastCheck.res.reason = lastCheck.before.reason
              /\ lastCheck.res.remaining = lastCheck.before.until - lastCheck.at
              /\ lastCheck.after = lastCheck.before
        /\ ~lastCheck.res.on =>
              /\ lastCheck.res = NotOnCooldown
              /\ lastCheck.after = NoInfo

\* C6 witness: a check made at the very instant an entry expires returned
\* not-on-cooldown and removed the entry, while another thread was in the
\* middle of a set call for the same provider.
C6_Witness ==
    /\ lastCheck # NoCall
    /\ lastCheck.before # NoInfo
    /\ lastCheck.at = lastCheck.before.until
    /\ ~lastCheck.res.on
    /\ \E t \in Threads : cpc[t] = "set" /\ cprov[t] = lastCheck.prov

\* C2 (as stated): after _safe_get received a 429 without Retry-After from a
\* provider's host, _provider_on_cooldown(provider) answers on-cooldown at
\* every time of the 30 minutes that follow the response.
C2_OnCooldownAfter429 ==
    \A p \in Providers :
        (last429[p] >= 0 /\ now < last429[p] + 30 * 60 * MsPerSec)
            => CheckResult(cooldowns[p], now).on

\* C3 (as stated): an attempt of _safe_get that received a 429, or a response
\* whose error text matches the limit pattern, is the last request of the
\* call, and the call returns None.
C3_AbortsOnLimit ==
    (sgLast.kind = "resp" /\ (sgLast.status = 429 \/ MatchesLimit(sgLast.text)))
        => /\ sgpc = "ret"
           /\ sgRet = NoResp
           /\ sgSent = sgLast.attempt + 1

\* C4 (as stated): an attempt of _safe_get that received a 401 or a 403
\* registers a cooldown of 12 hours for the provider of the host, is the last
\* request of the call, and the call returns None.
C4_UnauthorizedDisables ==
    (sgLast.kind = "resp" /\ sgLast.status \in {401, 403})
        => /\ cooldowns[aprov] # NoInfo
           /\ cooldowns[aprov].until >= now + 12 * 3600 * MsPerSec
           /\ CheckResult(cooldowns[aprov], now).on
           /\ sgpc = "ret" /\ sgRet = NoResp

\* C7: a _safe_get call sends at most 4 requests; a returned response is a
\* 200 and was the answer to the last request sent (failed attempts before
\* it do not prevent the success); once 4 attempts have failed nothing more
\* is sent and None is returned; every step inside the loop either returns or
\* moves to the next attempt, and the call always reaches its return.
C7_BoundedAttempts ==
    /\ [](/\ sgSent <= Attempts
          /\ attempt <= Attempts
          /\ ((sgpc = "ret" /\ sgRet # NoResp)
                => (IsSuccess(sgRet) /\ sgSent = attempt + 1))
          /\ ((sgpc = "ret" /\ attempt = Attempts) => sgRet = NoResp)
          /\ ((sgpc = "ret" /\ sgRet = NoResp /\ attempt < Attempts)
                => (sgLast.kind = "resp" /\ sgLast.attempt = attempt)))
    /\ [][/\ (sgSent' > sgSent => (attempt < Attempts /\ sgSent' = sgSent + 1))
           /\ ((sgpc = "send" /\ sgpc' = "send") => attempt' = attempt + 1)]_vars
    /\ ((sgpc \in {"wait", "send"}) ~> (sgpc = "ret"))

\* C7 witness: three attempts failed (the last one with an exception), the
\* fourth got a 200 and the call returns that response.
C7_Witness ==
    /\ sgpc = "ret"
    /\ sgRet # NoResp /\ sgRet.status = 200
    /\ sgSent = Attempts
    /\ sgLast.kind = "exc"

\* C8 (as stated): after attempt number a got a 5xx answer, _safe_get sleeps
\* min(30, max(RetryAfter, 1) * (1 + jitter) * 2^a) seconds, RetryAfter being
\* the value of the Retry-After header (0 when absent or unparsable).
C8_BackoffHonoursRetryAfter ==
    (sgLast.kind = "resp" /\ sgLast.status \in 500..599)
        => /\ sgLast.slept =
                Min(30 * MsPerSec,
                    Max(IF sgLast.ra.present /\ sgLast.ra.numeric
                        THEN sgLast.ra.value ELSE 0, 1)
                      * (MsPerSec + sgLast.jitter) * Pow2(sgLast.attempt))
           /\ sgLast.slept <= 30 * MsPerSec

\* C9 (as stated): after an attempt that failed with a network or timeout
\* exception, _safe_get sleeps at least 1 second before the next attempt.
C9_SleepsAfterException ==
    sgLast.kind = "exc" => sgLast.slept >= MsPerSec

\* C10 (as stated): a get_art call of an adapter that has an API key and is
\* not on cooldown, made while the cache holds an entry under the adapter's
\* (namespace, key) for the item, returns that entry and sends no request.
C10_CachedResultReturned ==
    (/\ apc = "done" /\ apiKey[aprov] /\ ~acool
     /\ aheld # NoCached)
        => (ares = aheld /\ asent = 0)

\* C10 (amended): the same, for TMDb, Fanart and OMDb with any item and for
\* TVDb with a show; in particular the TMDb adapter returns poster U1 for a
\* movie resolved to id "550" when the cache holds U1 for it.
C10_CachedResultReturnedWhenApplicable ==
    /\ (/\ apc = "done" /\ apiKey[aprov] /\ ~acool
        /\ aheld # NoCached
        /\ (aprov = "tvdb" => aitem.type = "show"))
           => (ares = aheld /\ asent = 0)
    /\ (/\ apc = "done" /\ aprov = "tmdb" /\ ~acool
        /\ aitem.type = "movie" /\ ResolveExternalIds(aitem).tmdb = "550"
        /\ aheld # NoCached /\ aheld.poster_url = "U1")
           => (ares.poster_url = "U1" /\ asent = 0)

\* C10 witness: the TMDb adapter has returned the pre-populated U1 entry
\* for the movie with id "550" without a request, in a run in which an
\* earlier call did send requests.
C10_Witness ==
    /\ apc = "done" /\ aprov = "tmdb" /\ ~acool
    /\ aitem.type = "movie" /\ ResolveExternalIds(aitem).tmdb = "550"
    /\ aheld # NoCached /\ aheld.poster_url = "U1"
    /\ ares = aheld /\ asent = 0
    /\ callsLeft = 0
    /\ \E h \in Hosts : limNext[h] > 0

\* C11: a get_art call of an adapter without API key, or whose provider is on
\* cooldown when the call checks it, or for an item without the id the
\* adapter needs, returns the empty result, sends no request and writes
\* nothing to the cache; the check answers on-cooldown exactly when the
\* registry holds a live entry, whatever the cache holds.
C11_RefusalsAreEmpty ==
    /\ []((/\ apc = "done"
           /\ (~apiKey[aprov] \/ acool \/ AdapterKey(aprov, aitem) = None))
             => (ares = EmptyResult /\ asent = 0 /\ ~awrote))
    /\ [][apc = "cooldown" =>
            /\ acool' = CheckResult(cooldowns[aprov], now).on
            /\ cache' = cache]_vars

\* C11 witness: the TMDb adapter, with its key, was called for the movie
\* whose result the cache holds while TMDb is on cooldown, and returned the
\* empty result.
C11_Witness ==
    /\ apc = "done" /\ aprov = "tmdb" /\ apiKey["tmdb"]
    /\ acool
    /\ aheld # NoCached /\ aheld.poster_url = "U1"
    /\ ares = EmptyResult /\ asent = 0 /\ ~awrote

C13_TvdbAllOrNothing ==
    (apc = "done" /\ aprov = "tvdb" /\ afailed)
        => /\ ares.poster_url = None /\ ares.background_url = None
           /\ ares = EmptyResult
           /\ ~awrote
           /\ cache[<<"tvdb", AdapterKey("tvdb", aitem)>>] = NoCached

\* C13 witness: the poster sub-query returned a poster, the background
\* sub-query failed after 4 attempts, and the call returned the empty result.
C13_Witness ==
    /\ apc = "done" /\ aprov = "tvdb"
    /\ aok = 1 /\ afailed /\ aphase = 2
    /\ aposter = "P2"
    /\ asent = 1 + Attempts
    /\ ares = EmptyResult /\ ~awrote

C15_FirstNonNullWins ==
    prpc \in {"apply", "done"} =>
        LET withPoster == {i \in 1..Len(called) : called[i].ret.poster_url # None}
            withBackground ==
                {i \in 1..Len(called) : called[i].ret.background_url # None}
        IN  /\ result.poster_url =
                  IF withPoster = {} THEN None
                  ELSE called[CHOOSE i \in withPoster :
                                 \A j \in withPoster : i <= j].ret.poster_url
            /\ result.background_url =
                  IF withBackground = {} THEN None
                  ELSE called[CHOOSE i \in withBackground :
                                 \A j \in withBackground : i <= j].ret.background_url

\* C15 (amended): the poster is the one returned by the first provider
\* called that returned a poster; the background is, when backgrounds are
\* enabled, the one returned by the first provider called that returned a
\* background, and none when backgrounds are disabled; a field that was set
\* before a call still has its value after it.
C15_FirstNonNullWinsWhenEnabled ==
    /\ prpc \in {"apply", "done"} =>
        LET withPoster == {i \in 1..Len(called) : called[i].ret.poster_url # None}
            withBackground ==
                {i \in 1..Len(called) : called[i].ret.background_url # None}
        IN  /\ result.poster_url =
                  IF withPoster = {} THEN None
                  ELSE called[CHOOSE i \in withPoster :
                                 \A j \in withPoster : i <= j].ret.poster_url
            /\ result.background_url =
                  IF withBackground = {} \/ ~include_backgrounds THEN None
                  ELSE called[CHOOSE i \in withBackground :
                                 \A j \in withBackground : i <= j].ret.background_url
    /\ \A i \in 1..Len(called) :
          /\ called[i].before.poster_url # None
                => result.poster_url = called[i].before.poster_url
          /\ called[i].before.background_url # None
                => result.background_url = called[i].before.background_url

\* C15 witness: with backgrounds enabled the first provider returned a
\* background only, the second a poster and a background, and the merged
\* result has the second's poster and the first's background.
C15_Witness ==
    /\ prpc = "done" /\ include_backgrounds
    /\ Len(called) = 2
    /\ called[1].ret.poster_url = None
    /\ called[1].ret.background_url = BackgroundUrl[called[1].name]
    /\ called[2].ret.poster_url = PosterUrl[called[2].name]
    /\ called[2].ret.background_url = BackgroundUrl[called[2].name]
    /\ called[1].name # called[2].name
    /\ result.poster_url = PosterUrl[called[2].name]
    /\ result.background_url = BackgroundUrl[called[1].name]

\* C16 (as stated): after the loop, the source of the merged result is the
\* provider of the latest call that put a field (poster or background) into
\* the merged result; a provider none of whose fields was taken is not the
\* source.
C16_SourceIsLastContributor ==
    prpc \in {"apply", "done"} =>
        LET contributed ==
                {i \in 1..Len(called) :
                    \/ /\ called[i].before.poster_url = None
                       /\ called[i].ret.poster_url # None
                    \/ /\ include_backgrounds
                       /\ called[i].before.background_url = None
                       /\ called[i].ret.background_url # None}
        IN  IF contributed = {} THEN result.source = None
            ELSE result.source =
                    called[CHOOSE i \in contributed :
                              \A j \in contributed : j <= i].name

\* C17: while one item is resolved the adapters are called in the order of
\* the priority list (increasing positions, every configured provider before
\* the stop called at its position), and an adapter is only called while the
\* accumulated result lacks its poster, or lacks its background with
\* backgrounds enabled; the loop ends early only for that reason.
C17_PriorityOrderAndEarlyStop ==
    /\ \A i \in 1..Len(called) :
          /\ called[i].pos \in 1..Len(provider_priority)
          /\ called[i].name = provider_priority[called[i].pos]
          /\ called[i].name \in providers
          /\ ~(/\ called[i].before.poster_url # None
               /\ (~include_backgrounds
                   \/ called[i].before.background_url # None))
          /\ \A j \in 1..Len(called) :
                i < j => called[i].pos < called[j].pos
          /\ \A k \in 1..(called[i].pos - 1) :
                provider_priority[k] \in providers
                    => \E j \in 1..(i - 1) : called[j].pos = k
    /\ (/\ prpc \in {"apply", "done"}
        /\ ~(/\ result.poster_url # None
             /\ (~include_backgrounds \/ result.background_url # None)))
       => \A k \in 1..Len(provider_priority) :
             provider_priority[k] \in providers
                 => \E j \in 1..Len(called) : called[j].pos = k

\* the first provider gave the poster, backgrounds are disabled, and a
\* configured provider later in the list was not called
C17_Witness ==
    /\ prpc = "done"
    /\ ~include_backgrounds
    /\ Len(called) = 1
    /\ called[1].pos = 1
    /\ result.poster_url # None
    /\ result.background_url = None
    /\ \E k \in 2..Len(provider_priority) : provider_priority[k] \in providers

\* C18: an item with a poster and (a background, or backgrounds disabled),
\* overwrite being disabled, is skipped: no adapter is called, nothing is
\* uploaded, and neither a change-log entry nor a proposed change is written.
C18_SkippedItemUntouched ==
    (/\ prpc # "called"
     /\ ~overwrite
     /\ has_poster
     /\ (has_background \/ ~include_backgrounds))
    => /\ prpc = "skipped"
       /\ called = <<>>
       /\ uploads = <<>>
       /\ change_log = <<>>
       /\ proposed_changes = <<>>

\* an item with a poster and no background is skipped with backgrounds
\* disabled, although providers are configured
C18_Witness ==
    /\ prpc = "skipped"
    /\ ~overwrite
    /\ has_poster
    /\ ~has_background
    /\ ~include_backgrounds
    /\ \E k \in 1..Len(provider_priority) : provider_priority[k] \in providers

\* C19: with overwrite disabled no poster is uploaded, proposed or logged as
\* changed for an item that has a poster, and no background for an item that
\* has a background, whatever the providers return.
C19_OnlyMissingArtworkFilled ==
    ~overwrite =>
        /\ \A i \in 1..Len(uploads) :
              /\ uploads[i].kind = "poster" => ~has_poster
              /\ uploads[i].kind = "background" => ~has_background
        /\ \A i \in 1..Len(proposed_changes) :
              /\ "new_poster" \in DOMAIN proposed_changes[i] => ~has_poster
              /\ "new_background" \in DOMAIN proposed_changes[i]
                    => ~has_background
        /\ \A i \in 1..Len(change_log) :
              /\ change_log[i].poster_changed => ~has_poster
              /\ change_log[i].background_changed => ~has_background

\* the item has a poster and no background, the providers gave both, and the
\* background alone is uploaded
C19_Witness ==
    /\ prpc = "done"
    /\ ~overwrite
    /\ has_poster
    /\ ~has_background
    /\ result.poster_url # None
    /\ result.background_url # None
    /\ Len(uploads) = 1
    /\ uploads[1].kind = "background"

\* C20 (as stated): two run_web bodies never execute concurrently, and a
\* run_web call entered while another run is in progress processes no item.
C20_SingleFlight ==
    /\ Cardinality(InProgress) <= 1
    /\ \A r \in Runs : rbusy[r] => ritems[r] = 0

\* C21 (as stated): when the batch is over, every item of every library
\* whose enumeration succeeded has been given to _process_item, whatever
\* raised on the way.
C21_EveryItemProcessed ==
    bpc = "done" =>
        \A l \in Libs :
            ~bfail[l] => \A i \in 1..bsize[l] : <<l, i>> \in bprocessed

\* C22 (as stated): when _safe_get hands get_art a 200 response whose body is
\* not JSON of the expected shape, the get_art call returns an empty result.
C22_MalformedBodyGivesEmptyResult ==
    [][(/\ apc = "fetch" /\ sgpc = "ret"
        /\ sgRet # NoResp /\ ~sgRet.body.json)
       => (apc' = "done" /\ ares' = EmptyResult)]_vars

\* C23 (as stated): a change-log entry of a real (not dry) run records a kind
\* of artwork as changed only if the upload of that kind succeeded, and an
\* item none of whose uploads succeeded gets no entry.
C23_FailedUploadNotRecorded ==
    /\ \A i \in 1..Len(change_log) :
          ~change_log[i].dry_run =>
              /\ change_log[i].poster_changed
                    => \E u \in 1..Len(uploads) :
                          uploads[u].kind = "poster" /\ uploads[u].ok
              /\ change_log[i].background_changed
                    => \E u \in 1..Len(uploads) :
                          uploads[u].kind = "background" /\ uploads[u].ok
    /\ (~dry_run /\ \A u \in 1..Len(uploads) : ~uploads[u].ok)
          => change_log = <<>>

\* C24 (as stated): with final approval nothing is uploaded, and an item
\* with a resolved change gets one proposed-change record, which carries the
\* item id, the title, the current and the new poster, the current and the
\* new background, and the source.
C24_OneFullRecordPerItem ==
    (final_approval /\ prpc = "done") =>
        /\ uploads = <<>>
        /\ IF \/ result.poster_url # None /\ (overwrite \/ ~has_poster)
              \/ /\ include_backgrounds /\ result.background_url # None
                 /\ (overwrite \/ ~has_background)
           THEN /\ Len(proposed_changes) = 1
                /\ DOMAIN proposed_changes[1] =
                      {"item_rating_key", "title", "current_poster",
                       "new_poster", "current_background", "new_background",
                       "source"}
           ELSE proposed_changes = <<>>

\* C24 (amended): with final approval nothing is uploaded, and an item gets
\* one record per kind of resolved change: for a resolved poster a record
\* with the item id, the title, the current and the new poster and the
\* source, for a resolved background a record with the item id, the title,
\* the current and the new background and the source; no other record.
C24_OneRecordPerResolvedKind ==
    (final_approval /\ prpc = "done") =>
        LET posterDue == result.poster_url # None /\ (overwrite \/ ~has_poster)
            artDue == /\ include_backgrounds /\ result.background_url # None
                      /\ (overwrite \/ ~has_background)
            posterRecs == {i \in 1..Len(proposed_changes) :
                             "new_poster" \in DOMAIN proposed_changes[i]}
            artRecs == {i \in 1..Len(proposed_changes) :
                          "new_background" \in DOMAIN proposed_changes[i]}
        IN  /\ uploads = <<>>
            /\ posterRecs \cup artRecs = 1..Len(proposed_changes)
            /\ Cardinality(posterRecs) = (IF posterDue THEN 1 ELSE 0)
            /\ Cardinality(artRecs) = (IF artDue THEN 1 ELSE 0)
            /\ \A i \in posterRecs :
                  /\ DOMAIN proposed_changes[i] =
                        {"item_rating_key", "title", "current_poster",
                         "new_poster", "source"}
                  /\ proposed_changes[i].item_rating_key = ItemRatingKey
                  /\ proposed_changes[i].new_poster = result.poster_url
                  /\ proposed_changes[i].source = result.source
            /\ \A i \in artRecs :
                  /\ DOMAIN proposed_changes[i] =
                        {"item_rating_key", "title", "current_background",
                         "new_background", "source"}
                  /\ proposed_changes[i].item_rating_key = ItemRatingKey
                  /\ proposed_changes[i].new_background = result.background_url
                  /\ proposed_changes[i].source = result.source

\* C24 witness: with final approval, a poster and a background were resolved
\* for an item that has neither; two records, no upload.
C24_Witness ==
    /\ final_approval /\ prpc = "done"
    /\ ~has_poster /\ ~has_background
    /\ Len(proposed_changes) = 2
    /\ "new_poster" \in DOMAIN proposed_changes[1]
    /\ "new_background" \in DOMAIN proposed_changes[2]
    /\ uploads = <<>>

\* C25 (as stated): a run that has put entries into the cache has written
\* the cache to its file when it ends, also when it ends by an exception:
\* Cache.save was called at run end.
C25_SavedAtRunEnd ==
    (bpc = "done" /\ bmem > 0) => bsaves >= 1

\* C26 (as stated): at every moment (so whenever a crash happens) the cache
\* file holds the whole snapshot taken by some save call; what _load returns
\* after a crash is the snapshot of a save call and holds at least what the
\* last save that ended well had written.
C26_FileIsAlwaysASnapshot ==
    /\ ffile.whole /\ ffile.data \in fpoints
    /\ floaded # -1 => (floaded \in fpoints /\ floaded >= fdone)

\* C27 (as stated): since a provider was last seen off cooldown, the "provider
\* on cooldown" notice has been logged for it at most once, however many
\* items were checked and however many runs began.
C27_OneNoticePerWindow ==
    \A p \in Providers : notices[p] <= 1

\* C28 (as stated): the usage of the provider whose get_art call runs equals
\* the number of HTTP requests the call has sent to it (the single call of
\* the specification starts from an empty tracker).
C28_RequestsAreCounted ==
    aprov # None => UsageOf(quotas, aprov, qday) = asent

\* C29: the counter of a provider and day equals the sum of the finished
\* increments whenever no increment holds the lock, so no update is lost once
\* all calls have ended; and a query returns the sum of the increments that
\* had finished when it read the counter, never a half-applied one.
C29_NoLostIncrement ==
    /\ \A p \in QuotaProviders, d \in Days :
          (\A t \in Threads : qpc[t] \notin {"inc_read", "inc_write"})
              => UsageOf(quotas, p, d) = qsum[p][d]
    /\ qobs # NoObs => qobs.usage = qobs.finished

\* C29 witness: one increment of TMDb has finished, a second is inside
\* the lock between its read and its store, and a third call for TMDb
\* waits for the lock.
C29_Witness ==
    \E t1, t2 \in Threads :
        /\ t1 # t2
        /\ qpc[t1] = "inc_write" /\ qprov[t1] = "tmdb"
        /\ qpc[t2] \in {"inc_enter", "query"} /\ qprov[t2] = "tmdb"
        /\ qkey[t1] = qkey[t2]
        /\ qsum["tmdb"][qkey[t1]] > 0

\* C30: a query for TMDb or OMDb returns max(0, 1000 - usage) as remaining,
\* never a negative number, and exceeded exactly when the usage is at least
\* 1000; a query for Fanart, TVDb or a provider without entry returns no
\* remaining and not exceeded.
C30_RemainingAndExceeded ==
    qobs # NoObs =>
        IF qobs.prov \in {"tmdb", "omdb"}
        THEN /\ ~qobs.remaining.none
             /\ qobs.remaining.value =
                    (IF qobs.usage >= 1000 THEN 0 ELSE 1000 - qobs.usage)
             /\ qobs.remaining.value >= 0
             /\ qobs.exceeded <=> (qobs.usage >= 1000)
        ELSE qobs.remaining.none /\ ~qobs.exceeded

\* C30 witness: a query found TMDb beyond its limit after two increments.
C30_Witness ==
    /\ qobs # NoObs
    /\ qobs.prov = "tmdb"
    /\ qobs.usage > 1000
    /\ qobs.exceeded
    /\ qobs.remaining.value = 0

\* C31 as stated (refuted): a query returns the sum of the finished
\* increments that were made on the UTC calendar day of the query, and what
\* is stored under the current date key is the sum of the increments of the
\* current UTC day.
C31_CountsPerUtcDay ==
    /\ qobs # NoObs => qobs.usage = qobs.finishedUtc
    /\ (\A t \in Threads : qpc[t] \notin {"inc_read", "inc_write"})
          => \A p \in QuotaProviders :
                UsageOf(quotas, p, GetDateKey(qday, qutc)) = qusum[p][qutc]

\* C31 amended: the tracker counts per provider and LOCAL calendar day of
\* the process: a query returns the sum of the finished increments made on
\* the local day of the query, so 0 once the local date has changed, and
\* the counter of every local day, the past ones included, holds the sum of
\* the increments made on that day.
C31_CountsPerLocalDay ==
    /\ qobs # NoObs => qobs.usage = qobs.finishedLocal
    /\ (\A t \in Threads : qpc[t] \notin {"inc_read", "inc_write"})
          => \A p \in QuotaProviders, d \in Days :
                UsageOf(quotas, p, d) = qlsum[p][d]

\* C31 witness: ahead of UTC, a query made after the local midnight and
\* before the UTC midnight returned 0 while the count of the day before is
\* still stored.
C31_Witness ==
    /\ qobs # NoObs
    /\ qobs.made.local = 2 /\ qobs.made.utc = 1
    /\ qobs.usage = 0
    /\ qlsum[qobs.prov][1] > 0
    /\ UsageOf(quotas, qobs.prov, 1) = qlsum[qobs.prov][1]

\* C32 (refuted): every request of a _safe_get call to a host with a rate
\* limiter has its own wait(), and a retry is sent at least the host's
\* interval after the request before it.
C32_EveryRequestWaits ==
    sghost \in Hosts =>
        /\ sgSent <= sgWaits
        /\ (sgpc = "send" /\ attempt > 0 /\ LoopContinues(attempt))
              => sgLast.slept >= Interval(sghost)

\* C33: a run_web invocation that has set is_running and emitted the
\* status "running" reaches its finally, where is_running is set to False
\* and the status "idle" is emitted, whichever way it leaves the try block.
C33_RunEndsIdle ==
    \A r \in WebRuns :
        (rstat[r] = "running") ~> (rpc[r] = "done" /\ rstat[r] = "idle")

\* C33 witness: one run has ended after an item raised and the other after
\* a return of the try block, both with the status "idle" and is_running
\* False.
C33_Witness ==
    /\ rpc[1] = "done" /\ rexit[1] = "raised" /\ rstat[1] = "idle"
    /\ rpc[2] = "done" /\ rexit[2] \in EarlyReturns \cup {"no_items"}
    /\ rstat[2] = "idle"
    /\ ~is_running

\* C34: a run_web call that finds is_running True returns at once: the step
\* changes neither is_running, the progress, the change log nor the
\* proposed changes and makes no status or progress event, and the call has
\* processed no item and emitted nothing afterwards either.
C34_IgnoredCallChangesNothing ==
    /\ [][\A r \in WebRuns :
            (rpc[r] = "entry" /\ is_running /\ rpc'[r] # rpc[r])
               => /\ rpc'[r] = "ignored"
                  /\ UNCHANGED <<is_running, progress_total, progress_done,
                                 change_log, proposed_changes, remitted,
                                 rstat, lastprog>>]_vars
    /\ [](\A r \in WebRuns :
            rpc[r] = "ignored"
               => (remitted[r] = 0 /\ ritems[r] = 0 /\ rstat[r] = None))

\* C34 witness: the second call was ignored while the first run, which has
\* logged a change and is halfway through its items, goes on.
C34_Witness ==
    /\ rpc[2] = "ignored"
    /\ rpc[1] = "body" /\ is_running
    /\ change_log # <<>>
    /\ progress_total = 2 /\ progress_done = 1

C36_StopsAtBackground ==
    (has_poster /\ ~has_background /\ ~overwrite /\ include_backgrounds)
        => \A i \in 1..Len(called) : called[i].before.background_url = None

\* C37 (refuted): in the interactive path (final_approval never assigned)
\* with dry_run off, the processing of an item without poster for which the
\* providers returned a poster ends with that poster uploaded.
C37_InteractiveRunUploads ==
    (/\ ~fa_assigned
     /\ ~dry_run
     /\ ~has_poster
     /\ prpc \in {"done", "raised"}
     /\ result.poster_url # None)
    => /\ prpc = "done"
       /\ \E u \in 1..Len(uploads) :
             uploads[u].kind = "poster" /\ uploads[u].url = result.poster_url

\* C38 (refuted): an event that was put on the queue while both clients
\* were connected and has left the queue has been yielded to both.
C38_EveryClientGetsEveryEvent ==
    \A e \in during :
        e \notin Range(event_queue)
            => \A c \in StreamClients : e \in Range(got[c])

\* C39 (refuted): no event is yielded twice to the same client.
C39_AtMostOnce ==
    \A c \in StreamClients :
        \A i, j \in 1..Len(got[c]) : got[c][i] = got[c][j] => i = j

\* C40 (refuted): progress_done stays between 0 and progress_total, every
\* progress event carries such a pair, and a run whose loop ended normally
\* found progress_done = progress_total = the number of its items.
C40_ProgressMatchesItems ==
    /\ 0 <= progress_done /\ progress_done <= progress_total
    /\ lastprog # NoProgress
          => (0 <= lastprog.completed /\ lastprog.completed <= lastprog.total)
    /\ \A r \in WebRuns :
          rexit[r] = "finished"
              => /\ rfinal[r].completed = rtotal[r]
                 /\ rfinal[r].total = rtotal[r]

====
